---------------------------- MODULE Spec2Model ----------------------------
(***************************************************************************)
(* Model of the SEC stock loader (scripts/load_stock_symbols.py with       *)
(* src/models.py).                                                         *)
(*                                                                         *)
(* Time is counted in ticks of 0.1 s, the smallest delay the code ever     *)
(* asks for (the lower end of the jitter, random.uniform(0.1, 0.5)).       *)
(***************************************************************************)
EXTENDS Integers, Sequences, FiniteSets, TLC

VARIABLES
    now,                 \* time.time(), in ticks
    request_timestamps,  \* the module-level list request_timestamps
    granted,             \* history: grant times inside the window that ends at the latest grant
    slack,               \* history: ticks spent so far beyond the shortest possible delays
    last_sleep,          \* history: sleep_time of the latest throttle_requests() call (0: none)
    \* ---- throttle_requests() run by the pool's threads, statement by statement
    tpc,                 \* thread -> the statement of throttle_requests() it is at
    t_current,           \* thread -> its local current_time
    t_filtered,          \* thread -> the list its comprehension built, not yet stored
    t_wake,              \* thread -> the tick at which its time.sleep() ends
    t_calls,             \* thread -> calls of throttle_requests() it has started
    t_sleep,             \* thread -> sleep_time of its call at the rate limit (0: none)
    \* ---- main() and the threads of enhance_stocks_parallel
    sec_data,            \* the companies of company_tickers.json, in the file's order
    max_enhance,         \* MAX_STOCKS_TO_ENHANCE of the environment (None: not set)
    m_pc,                \* where main() is
    basic_stocks,        \* main: basic_stocks
    stocks_to_enhance,   \* main: stocks_to_enhance, the stocks argument of enhance_stocks_parallel
    queue,               \* the executor's work queue: indices of the stocks not yet taken
    futures,             \* index -> None while the future is pending, then what the call gave
    collected,           \* the futures as_completed has yielded so far
    enhanced_stocks,     \* enhance_stocks_parallel: enhanced_stocks
    w_pc,                \* thread -> where it is in enhance_stock_with_submission_data
    w_task,              \* thread -> index of the stock it works on (0: none)
    w_sub,               \* thread -> its submission_data
    w_ret,               \* thread -> what the fetch it called has just handed back
    w_log,               \* thread -> history: the events of the fetch call it is in
    w_throttled,         \* thread -> history: throttle_requests() called since its last request
    unthrottled,         \* history: the requests sent without a throttle_requests() call of their own
    task_sub,            \* index -> history: what fetch_sec_submission_data returned for it
    logged,              \* history: the symbols named in a "Failed to insert record" line
    store,               \* the rows of the table 'stocks'
    \* ---- load_to_supabase, upsert by upsert
    l_pc,                \* where load_to_supabase is
    l_stocks,            \* its argument stocks
    l_records,           \* records
    l_i,                 \* i of the loop over the batches
    l_k,                 \* position in records of the record of the inner loop
    l_run,               \* which call of load_to_supabase this is (0: none)
    l_store0,            \* history: the table when the call began
    l_tried,             \* history: position -> upserts of that record alone, this call
    l_bulk_failed,       \* history: the batches whose upsert raised, this call
    l_rec_ok,            \* history: the positions whose own upsert succeeded, this call
    loaded,              \* history: every record an upsert that succeeded carried, in order
    l_attempted,         \* history: the batches given to an upsert as a whole in this call, in order
    \* ---- main() run again
    r_run,               \* which run of main() this is (0: none)
    r_prev,              \* history: the table when the run before this one ended
    r_outcome,           \* index -> what the SEC's replies make of the stock's enhancement
    r_failed,            \* history: an upsert raised in some run
    \* ---- one call of fetch_sec_company_facts
    f_pc,                \* where the call is
    f_first,             \* the reply to its first request
    f_retry,             \* the reply to its second request, when there is one
    f_ret,               \* what the call handed back
    \* ---- one call of Stock.update_from_submission
    u_pc,                \* where the call is
    u_stock,             \* the Stock object given as stock
    u_data,              \* the dict given as submission_data
    u_ret,               \* what the call handed back
    \* ---- one call of MCPClient.process_query
    n_pc,                \* where the call is
    messages,            \* process_query: messages
    tool_call_count,     \* process_query: tool_call_count
    response,            \* process_query: the content of response
    final_text,          \* process_query: final_text
    n_received,          \* history: responses received from the model so far
    n_handled            \* history: the responses whose content a for loop went through

throttleVars == <<now, request_timestamps, granted, slack, last_sleep>>
raceVars == <<tpc, t_current, t_filtered, t_wake, t_calls, t_sleep>>
sourceVars == <<sec_data, max_enhance>>
mainVars == <<m_pc, basic_stocks, stocks_to_enhance, queue, futures, collected,
              enhanced_stocks>>
workerVars == <<w_pc, w_task, w_sub, w_ret, w_log, w_throttled>>
historyVars == <<unthrottled, task_sub, logged>>
loadVars == <<l_pc, l_stocks, l_records, l_i, l_k, l_run, l_store0, l_tried, l_bulk_failed,
              l_rec_ok, loaded, l_attempted>>
runVars == <<r_run, r_prev, r_outcome, r_failed>>
factsVars == <<f_pc, f_first, f_retry, f_ret>>
updateVars == <<u_pc, u_stock, u_data, u_ret>>
notifierVars == <<n_pc, messages, tool_call_count, response, final_text, n_received, n_handled>>
unitVars == <<factsVars, updateVars, notifierVars>>
pipelineVars == <<sourceVars, mainVars, workerVars, historyVars, store, loadVars, runVars,
                  unitVars>>

vars == <<throttleVars, raceVars, pipelineVars>>

(***************************************************************************)
(* Bounds of the exploration.                                              *)
(***************************************************************************)
\* no throttle_requests() call starts after this tick
MaxTime == 104
\* ticks a behaviour may spend beyond the minimal jitter (longer jitter, pauses)
MaxSlack == 1
\* calls of throttle_requests() one thread starts when the threads interleave
MaxRaceCalls == 1
\* companies in company_tickers.json
MaxCompanies == 3
\* batch_size of load_to_supabase, 1000 in the code, scaled down with the
\* lists: the loop over the batches is the same for every size
batch_size == 2
\* times main(), or load_to_supabase alone, is run on the same data
MaxRuns == 2
\* entries of company_tickers.json when the entries may be malformed
MaxEntries == 2

\* def enhance_stocks_parallel(stocks, max_workers: int = 2)
max_workers == 2

\* the threads of ThreadPoolExecutor(max_workers=max_workers), max_workers = 2
Threads == {"t1", "t2"}

(***************************************************************************)
(* Rate limiting parameters.                                               *)
(***************************************************************************)
MAX_REQUESTS_PER_SECOND == 8
REQUEST_WINDOW == 10
\* random.uniform(0.1, 0.5), in ticks
JitterLo == 1
JitterHi == 5

Ticks(seconds) == seconds * 10

Max(a, b) == IF a >= b THEN a ELSE b

\* request_timestamps = [ts for ts in request_timestamps if current_time - ts < REQUEST_WINDOW]
Evict(ts, current_time) ==
    SelectSeq(ts, LAMBDA x : current_time - x < Ticks(REQUEST_WINDOW))

\* a plausible slip: the comparison of the rate-limit test made strict
SaturatedStrict(ts) == Len(ts) > MAX_REQUESTS_PER_SECOND * REQUEST_WINDOW

\* if len(request_timestamps) >= MAX_REQUESTS_PER_SECOND * REQUEST_WINDOW
Saturated(ts) == Len(ts) >= MAX_REQUESTS_PER_SECOND * REQUEST_WINDOW

\* a plausible slip: the sleep at the rate limit is the minimum delay alone
SleepTimeFloor(ts, current_time) == Ticks(1)

\* sleep_time = max(REQUEST_WINDOW - (current_time - request_timestamps[0]), 1)
SleepTime(ts, current_time) ==
    Max(Ticks(REQUEST_WINDOW) - (current_time - ts[1]), Ticks(1))

\* One whole call of throttle_requests() by a single caller, started at
\* current_time with the jitter drawn: the list it leaves, the time at which
\* it returns and how long it slept at the rate limit.
throttle_requests(ts, current_time, jitter) ==
    LET kept == Evict(ts, current_time)
        sleep_time == IF Saturated(kept) THEN SleepTime(kept, current_time) ELSE 0
        stamp == current_time + sleep_time + jitter
    IN  [timestamps |-> Append(kept, stamp), returns |-> stamp, sleep_time |-> sleep_time]

\* the grants of the history that lie in the window (stamp - W, stamp]
InWindow(history, stamp) ==
    SelectSeq(history, LAMBDA x : stamp - x < Ticks(REQUEST_WINDOW))

(***************************************************************************)
(* Values.  None is the empty tuple and a present optional value v is      *)
(* <<v>>; a JSON object (a dict) is a function from its keys.              *)
(***************************************************************************)
None == <<>>
Some(v) == <<v>>
EmptyDict == <<>>

\* d.get(key), and d.get(key, default)
Get(d, key) == IF key \in DOMAIN d THEN Some(d[key]) ELSE None
GetOr(d, key, default) == IF key \in DOMAIN d THEN d[key] ELSE default

\* str(n) for n >= 0, as the tuple of its decimal digits
RECURSIVE Str(_)
Str(n) == IF n < 10 THEN <<n>> ELSE Append(Str(n \div 10), n % 10)

\* s.zfill(width)
RECURSIVE zfill(_, _)
zfill(s, width) == IF Len(s) >= width THEN s ELSE zfill(<<0>> \o s, width)

\* a JSON integer n >= 0 of any width, held as hi * 10^9 + lo with lo < 10^9
Number(hi, lo) == [hi |-> hi, lo |-> lo]

\* str(n) for such an integer
StrOfNumber(n) == IF n.hi = 0 THEN Str(n.lo) ELSE Str(n.hi) \o zfill(Str(n.lo), 9)

(***************************************************************************)
(* src/models.py: class Stock.  The twenty-one descriptive fields that     *)
(* update_from_submission copies with submission_data.get(...) are stood   *)
(* for by entity_type; the three share fields are kept.                    *)
(***************************************************************************)
\* cik: str = Field(max_length=10, min_length=10)
CikLength == 10

\* a JSON value that fits Optional[str], and one that does not
StrValue(of) == [type |-> "str", of |-> of]
IntValue(of) == [type |-> "int", of |-> of]

\* a plausible slip: cik declared as a plain str, without the length bounds
StockValidAnyLength(f) ==
    f.entity_type # None => f.entity_type[1].type = "str"

\* pydantic's validation of the fields given to Stock(...)
StockValid(f) ==
    /\ Len(f.cik) = CikLength
    /\ f.entity_type # None => f.entity_type[1].type = "str"

\* Stock(cik=..., symbol=..., security_name=...): the optional fields default to None
BaseStock(cik, symbol, security_name) ==
    [cik |-> cik, symbol |-> symbol, security_name |-> security_name,
     entity_type |-> None, basic_shares |-> None, diluted_shares |-> None,
     dilution_percentage |-> None]

\* the body of the loop of Stock.from_sec_json for one company: the Stock
\* appended, or None when the company is skipped
StockOfCompany(company) ==
    LET cik == zfill(StrOfNumber(GetOr(company, "cik_str", Number(0, 0))), CikLength)
        ticker == GetOr(company, "ticker", "")
        title == GetOr(company, "title", "")
        stock == BaseStock(cik, ticker, title)
    IN  IF ticker = "" \/ title = "" THEN None
        ELSE IF ~StockValid(stock) THEN None
        ELSE Some(stock)

\* Stock.from_sec_json(data): the list of the Stocks of the companies kept
RECURSIVE from_sec_json(_)
from_sec_json(data) ==
    IF data = <<>> THEN <<>>
    ELSE LET made == StockOfCompany(Head(data))
         IN  made \o from_sec_json(Tail(data))

\* the Stock built by update_from_submission from the stock and the dict
UpdatedFields(stock, submission_data) ==
    [cik |-> stock.cik, symbol |-> stock.symbol, security_name |-> stock.security_name,
     entity_type |-> Get(submission_data, "entityType"),
     basic_shares |-> Get(submission_data, "basicShares"),
     diluted_shares |-> Get(submission_data, "dilutedShares"),
     dilution_percentage |-> Get(submission_data, "dilutionPercentage")]

\* Stock.update_from_submission(stock, submission_data); submission_data is a
\* dict here.  A validation error is caught and the stock returned as it was.
update_from_submission(stock, submission_data) ==
    IF DOMAIN submission_data = {} THEN stock
    ELSE IF ~StockValid(UpdatedFields(stock, submission_data)) THEN stock
    ELSE UpdatedFields(stock, submission_data)

(***************************************************************************)
(* The SEC endpoints, as the replies a request can get.                    *)
(***************************************************************************)
\* what requests.get + raise_for_status + response.json() can end in
ReplyKinds == {"ok", "429", "http_error", "transport_error", "bad_json"}

\* data.sec.gov/submissions/CIK{cik}.json: the object of the company
SubmissionJson(cik) == [entityType |-> StrValue(cik)]
\* an object one of whose fields has a type Stock does not accept
InvalidSubmissionJson(cik) == [entityType |-> IntValue(cik)]

\* the bodies a successful submissions request can carry for this cik
SubmissionBodies(cik) == {SubmissionJson(cik), InvalidSubmissionJson(cik), EmptyDict}

\* the replies to a submissions request for this cik
SubmissionReplies(cik) ==
    {[kind |-> "ok", json |-> b] : b \in SubmissionBodies(cik)}
        \cup {[kind |-> k, json |-> EmptyDict] : k \in ReplyKinds \ {"ok"}}

\* api/xbrl/companyfacts: has_gaap tells whether data['facts']['us-gaap'] is
\* there; basic and diluted are the 'shares' lists of the two series (None:
\* a key on the way to the list is missing), each entry its 'val'.
FactsJson(has_gaap, basic, diluted) ==
    [has_gaap |-> has_gaap, basic |-> basic, diluted |-> diluted]

NoGaapJson == FactsJson(FALSE, None, None)
SharesJson == FactsJson(TRUE, Some(<<90, 100>>), Some(<<95, 110>>))

\* the bodies a successful company-facts request can carry
FactsBodies == {NoGaapJson, SharesJson}

\* the replies to a company-facts request
FactsReplies ==
    {[kind |-> "ok", json |-> b] : b \in FactsBodies}
        \cup {[kind |-> k, json |-> NoGaapJson] : k \in ReplyKinds \ {"ok"}}

(***************************************************************************)
(* What a function hands to its caller: a value, or an exception.          *)
(***************************************************************************)
Returned(v) == [kind |-> "return", value |-> v]
Raised == [kind |-> "raise", value |-> None]

(***************************************************************************)
(* fetch_sec_submission_data and fetch_sec_company_facts, as what each     *)
(* attempt makes of the reply it gets.  "retry" stands for the branch      *)
(* taken on status 429: back off, throttle, request once more.             *)
(***************************************************************************)
Retry == [kind |-> "retry", value |-> None]

\* a plausible slip: the except clause around the retry left out
submission_retry_unguarded(reply) ==
    IF reply.kind = "ok" THEN Returned(Some(reply.json)) ELSE Raised

\* lines 96-99 and the except clauses of lines 100-120, first attempt
submission_first(reply) ==
    CASE reply.kind = "ok" -> Returned(Some(reply.json))
      [] reply.kind = "429" -> Retry
      [] OTHER -> Returned(None)

\* lines 106-114: the retry; any exception gives None
submission_retry(reply) ==
    IF reply.kind = "ok" THEN Returned(Some(reply.json)) ELSE Returned(None)

\* (basic_shares, diluted_shares, dilution_percentage)
Triple(basic, diluted, dilution) ==
    [basic_shares |-> basic, diluted_shares |-> diluted, dilution_percentage |-> dilution]
NullTriple == Triple(None, None, None)

\* shares_data[-1]['val'] when the list is there and not empty
LatestVal(series) ==
    IF series = None \/ series[1] = <<>> THEN None
    ELSE Some(series[1][Len(series[1])])

\* a plausible slip: the additional shares divided by the diluted count
DilutionOverDiluted(basic, diluted) ==
    [num |-> (diluted - basic) * 100, den |-> diluted]

\* (additional_shares / basic_shares) * 100, kept as the exact ratio
DilutionPercentage(basic, diluted) ==
    [num |-> (diluted - basic) * 100, den |-> basic]

\* lines 140-174: the tuple extracted from the JSON of a successful request
facts_from_json(data) ==
    IF ~data.has_gaap THEN NullTriple
    ELSE LET basic == LatestVal(data.basic)
             diluted == LatestVal(data.diluted)
         IN  Triple(basic, diluted,
                    IF basic # None /\ diluted # None /\ basic[1] > 0
                    THEN Some(DilutionPercentage(basic[1], diluted[1]))
                    ELSE None)

\* a plausible slip: only HTTPError is caught; the last except clause left out
facts_first_http_only(reply) ==
    CASE reply.kind = "ok" -> Returned(facts_from_json(reply.json))
      [] reply.kind = "429" -> Retry
      [] reply.kind = "http_error" -> Returned(NullTriple)
      [] OTHER -> Raised

\* lines 136-174 and the except clauses of lines 176-200, first attempt
facts_first(reply) ==
    CASE reply.kind = "ok" -> Returned(facts_from_json(reply.json))
      [] reply.kind = "429" -> Retry
      [] OTHER -> Returned(NullTriple)

\* lines 181-194: the retry.  With 'facts' and 'us-gaap' in the data it
\* returns the null tuple; without them control leaves the if, the try and
\* the except clause, and the function ends without a return: None.
facts_retry(reply) ==
    IF reply.kind = "ok"
    THEN IF reply.json.has_gaap THEN Returned(NullTriple) ELSE Returned(None)
    ELSE Returned(NullTriple)

(***************************************************************************)
(* enhance_stock_with_submission_data                                      *)
(***************************************************************************)
\* a plausible slip: the except clause re-raises instead of returning the stock
enhance_except_reraise(stock) == Raised

\* lines 226-228: except Exception: return stock
enhance_except(stock) == Returned(stock)

\* if not submission_data: the fetch gave None or an empty object
NoSubmissionData(ret) == ret.value = None \/ DOMAIN ret.value[1] = {}

\* lines 206-210: what the function does with the return of the submission
\* fetch: the value it returns at once, or "go on" to the company facts
after_submission(stock, ret) ==
    IF ret.kind = "raise" THEN enhance_except(stock)
    ELSE IF NoSubmissionData(ret) THEN Returned(stock)
    ELSE [kind |-> "go on", value |-> None]

\* lines 216-221: the share values that are not None are put into the dict
WithShares(submission_data, t) ==
    LET d1 == IF t.basic_shares # None
              THEN ("basicShares" :> t.basic_shares[1]) @@ submission_data
              ELSE submission_data
        d2 == IF t.diluted_shares # None
              THEN ("dilutedShares" :> t.diluted_shares[1]) @@ d1
              ELSE d1
    IN  IF t.dilution_percentage # None
        THEN ("dilutionPercentage" :> t.dilution_percentage[1]) @@ d2
        ELSE d2

\* lines 213-225: what the function does with the return of the facts fetch.
\* Unpacking None into three names raises TypeError, which line 226 catches.
after_facts(stock, submission_data, ret) ==
    IF ret.kind = "raise" \/ ret.value = None THEN enhance_except(stock)
    ELSE Returned(update_from_submission(stock, WithShares(submission_data, ret.value)))

\* the whole of fetch_sec_submission_data, given the replies of the first
\* request and of the retry (used only after a 429)
fetch_sec_submission_data(o1, o2) ==
    IF submission_first(o1).kind = "retry" THEN submission_retry(o2) ELSE submission_first(o1)

\* the whole of fetch_sec_company_facts, likewise
fetch_sec_company_facts(f1, f2) ==
    IF facts_first(f1).kind = "retry" THEN facts_retry(f2) ELSE facts_first(f1)

\* lines 204-228, given what the two fetches hand back
enhance_with(stock, sub, facts) ==
    LET first == after_submission(stock, sub)
    IN  IF first.kind # "go on" THEN first
        ELSE after_facts(stock, sub.value[1], facts)

\* the whole of enhance_stock_with_submission_data, given the four replies
enhance_stock_with_submission_data(stock, o1, o2, f1, f2) ==
    enhance_with(stock, fetch_sec_submission_data(o1, o2), fetch_sec_company_facts(f1, f2))

\* every result enhance_stock_with_submission_data can give for the stock
EnhanceOutcomes(stock) ==
    {enhance_with(stock, sub, facts) :
        sub \in {fetch_sec_submission_data(o1, o2) :
                    o1 \in SubmissionReplies(stock.cik), o2 \in SubmissionReplies(stock.cik)},
        facts \in {fetch_sec_company_facts(f1, f2) : f1 \in FactsReplies, f2 \in FactsReplies}}

(***************************************************************************)
(* load_to_supabase and the table it writes.  The table is the sequence of *)
(* its rows; a row is the dict model_dump(exclude_none=True) gives.        *)
(***************************************************************************)
\* the fields of Stock that may be None
OptionalFields == {"entity_type", "basic_shares", "diluted_shares", "dilution_percentage"}

\* stock.model_dump(exclude_none=True)
model_dump(stock) ==
    [k \in {"cik", "symbol", "security_name"}
            \cup {f \in OptionalFields : stock[f] # None} |->
        IF k \in OptionalFields THEN stock[k][1] ELSE stock[k]]

\* records = [stock.model_dump(exclude_none=True) for stock in stocks]
Records(stocks) == [k \in 1..Len(stocks) |-> model_dump(stocks[k])]

\* the rows of the table with this key
RowsOf(rows, cik) == {k \in 1..Len(rows) : rows[k].cik = cik}

\* a write that appends the row whatever the table holds
Insert(rows, record) == Append(rows, record)

\* the table after one row is upserted: the row with the record's cik is
\* replaced by the record, or the record is added
Upsert(rows, record) ==
    IF RowsOf(rows, record.cik) = {} THEN Append(rows, record)
    ELSE [k \in 1..Len(rows) |-> IF rows[k].cik = record.cik THEN record ELSE rows[k]]

\* supabase.table(table).upsert([record]).execute(), when it succeeds
upsert_record(rows, record) == Upsert(rows, record)

\* supabase.table(table).upsert(batch).execute(), when it succeeds
RECURSIVE upsert_batch(_, _)
upsert_batch(rows, batch) ==
    IF batch = <<>> THEN rows
    ELSE upsert_batch(upsert_record(rows, Head(batch)), Tail(batch))

\* a plausible slip: the slice ends one record early
SliceShort(records, i, size) ==
    SubSeq(records, i + 1, IF i + size - 1 <= Len(records) THEN i + size - 1 ELSE Len(records))

\* batch = records[i:i + batch_size], i counted from 0
Slice(records, i, size) ==
    SubSeq(records, i + 1, IF i + size <= Len(records) THEN i + size ELSE Len(records))

\* lines 287-292: the records k..last upserted one by one; those whose upsert
\* raises (failed_records) are logged and skipped
RECURSIVE one_by_one(_, _, _, _, _)
one_by_one(rows, records, k, last, failed_records) ==
    IF k > last THEN rows
    ELSE one_by_one(IF k \in failed_records THEN rows
                    ELSE upsert_record(rows, records[k]),
                    records, k + 1, last, failed_records)

\* lines 276-292 from offset i on: the table after the batches are written,
\* given the batches whose upsert raises and the records whose own upsert raises
RECURSIVE load_batches(_, _, _, _, _)
load_batches(rows, records, i, failed_batches, failed_records) ==
    IF i >= Len(records) THEN rows
    ELSE LET batch == Slice(records, i, batch_size)
             written ==
                 IF (i \div batch_size) + 1 \notin failed_batches
                 THEN upsert_batch(rows, batch)
                 ELSE one_by_one(rows, records, i + 1, i + Len(batch), failed_records)
         IN  load_batches(written, records, i + batch_size, failed_batches, failed_records)

\* the whole of load_to_supabase(stocks)
load_to_supabase(rows, stocks, failed_batches, failed_records) ==
    load_batches(rows, Records(stocks), 0, failed_batches, failed_records)

\* (len(records) + batch_size - 1) // batch_size
BatchCount(n) == (n + batch_size - 1) \div batch_size

\* lines 290-292: the symbols of the records whose own upsert raised, after
\* the upsert of their batch had raised; each is named in a log line
failed_logged(stocks, failed_batches, failed_records) ==
    {stocks[k].symbol :
        k \in {j \in DOMAIN stocks :
                  /\ ((j - 1) \div batch_size) + 1 \in failed_batches
                  /\ j \in failed_records}}

(***************************************************************************)
(* The source data: company_tickers.json.                                  *)
(***************************************************************************)
Company(cik_str, ticker, title) ==
    [cik_str |-> Number(0, cik_str), ticker |-> ticker, title |-> title]

\* GOOGL and GOOG are two tickers of one company (one cik)
Catalogue ==
    << Company(320193, "AAPL", "Apple Inc."),
       Company(1652044, "GOOGL", "Alphabet Inc."),
       Company(1652044, "GOOG", "Alphabet Inc."),
       Company(789019, "", "MICROSOFT CORP"),
       Company(789019, "MSFT", "MICROSOFT CORP") >>

Min(a, b) == IF a <= b THEN a ELSE b

\* the files the run may be given
Feeds == {SubSeq(Catalogue, 1, n) : n \in 0..Min(MaxCompanies, Len(Catalogue))}

\* the values of MAX_STOCKS_TO_ENHANCE tried: not set, and two small ones
EnhanceCaps == {None, Some(0), Some(1)}

\* basic_stocks[:max_stocks_to_enhance], the default being len(basic_stocks)
Capped(stocks, cap) ==
    IF cap = None THEN stocks ELSE SubSeq(stocks, 1, Min(cap[1], Len(stocks)))

\* an event of a fetch call: a request with the reply it got, a back-off
\* sleep, a call of throttle_requests()
Event(what, reply) == [what |-> what, reply |-> reply]

\* no thread is inside throttle_requests()
RaceIdle ==
    /\ tpc = [t \in Threads |-> "idle"]
    /\ t_current = [t \in Threads |-> 0]
    /\ t_filtered = [t \in Threads |-> <<>>]
    /\ t_wake = [t \in Threads |-> 0]
    /\ t_calls = [t \in Threads |-> 0]
    /\ t_sleep = [t \in Threads |-> 0]

\* the threads of the pool hold nothing
WorkersIdle ==
    /\ w_pc = [t \in Threads |-> "idle"]
    /\ w_task = [t \in Threads |-> 0]
    /\ w_sub = [t \in Threads |-> EmptyDict]
    /\ w_ret = [t \in Threads |-> Returned(None)]
    /\ w_log = [t \in Threads |-> <<>>]
    /\ w_throttled = [t \in Threads |-> FALSE]

\* main() has not fetched anything yet
MainAtStart ==
    /\ m_pc = "fetch_tickers"
    /\ basic_stocks = <<>>
    /\ stocks_to_enhance = <<>>
    /\ queue = <<>>
    /\ futures = <<>>
    /\ collected = {}
    /\ enhanced_stocks = <<>>
    /\ unthrottled = {}
    /\ task_sub = <<>>
    /\ logged = {}

\* load_to_supabase is not followed upsert by upsert
LoadOff ==
    /\ l_pc = "off"
    /\ l_stocks = <<>>
    /\ l_records = <<>>
    /\ l_i = 0
    /\ l_k = 0
    /\ l_run = 0
    /\ l_store0 = <<>>
    /\ l_tried = <<>>
    /\ l_bulk_failed = {}
    /\ l_rec_ok = {}
    /\ loaded = <<>>
    /\ l_attempted = <<>>

\* main() is run once at most
RunOff ==
    /\ r_run = 0
    /\ r_prev = <<>>
    /\ r_outcome = <<>>
    /\ r_failed = FALSE

\* no single call of fetch_sec_company_facts or update_from_submission is followed
NotifierOff ==
    /\ n_pc = "off"
    /\ messages = <<>>
    /\ tool_call_count = 0
    /\ response = <<>>
    /\ final_text = <<>>
    /\ n_received = 0
    /\ n_handled = {}

UnitOff ==
    /\ f_pc = "off"
    /\ f_first = <<>>
    /\ f_retry = <<>>
    /\ f_ret = <<>>
    /\ u_pc = "off"
    /\ u_stock = <<>>
    /\ u_data = <<>>
    /\ u_ret = <<>>
    /\ NotifierOff

\* main() is not run
MainOff ==
    /\ sec_data = <<>>
    /\ max_enhance = None
    /\ MainAtStart
    /\ WorkersIdle

\* nothing of the pipeline runs: its variables stay as they are
PipelineOff ==
    /\ MainOff
    /\ store = <<>>
    /\ LoadOff
    /\ RunOff
    /\ UnitOff

(***************************************************************************)
(* The rate limiter used by one caller at a time.                          *)
(***************************************************************************)
ThrottleInit ==
    /\ now = 0
    /\ request_timestamps = <<>>
    /\ granted = <<>>
    /\ slack = 0
    /\ last_sleep = 0
    /\ RaceIdle
    /\ PipelineOff

\* throttle_requests() called and returned
ThrottleCall ==
    /\ now <= MaxTime
    /\ \E jitter \in JitterLo..JitterHi :
        /\ slack + (jitter - JitterLo) <= MaxSlack
        /\ LET r == throttle_requests(request_timestamps, now, jitter)
           IN  /\ request_timestamps' = r.timestamps
               /\ now' = r.returns
               /\ last_sleep' = r.sleep_time
               /\ granted' = Append(InWindow(granted, r.returns), r.returns)
        /\ slack' = slack + (jitter - JitterLo)
    /\ UNCHANGED <<raceVars, pipelineVars>>

\* the caller is busy elsewhere between two calls (the HTTP request itself)
Pause ==
    /\ now <= MaxTime
    /\ \E d \in 1..MaxSlack :
        /\ slack + d <= MaxSlack
        /\ now' = now + d
        /\ slack' = slack + d
    /\ UNCHANGED <<request_timestamps, granted, last_sleep, raceVars, pipelineVars>>

ThrottleNext == ThrottleCall \/ Pause

SpecThrottle == ThrottleInit /\ [][ThrottleNext]_vars

AlmostFull == [i \in 1..(MAX_REQUESTS_PER_SECOND * REQUEST_WINDOW - 1) |-> i]

RaceInit ==
    /\ request_timestamps \in {<<>>, AlmostFull}
    /\ granted = request_timestamps
    /\ now = Len(request_timestamps)
    /\ slack = 0
    /\ last_sleep = 0
    /\ RaceIdle
    /\ PipelineOff

\* a thread enters throttle_requests()
RaceCall(t) ==
    /\ tpc[t] = "idle"
    /\ t_calls[t] < MaxRaceCalls
    /\ now <= MaxTime
    /\ tpc' = [tpc EXCEPT ![t] = "evict"]
    /\ t_calls' = [t_calls EXCEPT ![t] = @ + 1]
    /\ UNCHANGED <<throttleVars, t_current, t_filtered, t_wake, t_sleep, pipelineVars>>

\* current_time = time.time(); [ts for ts in request_timestamps if ...]
RaceEvict(t) ==
    /\ tpc[t] = "evict"
    /\ t_current' = [t_current EXCEPT ![t] = now]
    /\ t_filtered' = [t_filtered EXCEPT ![t] = Evict(request_timestamps, now)]
    /\ tpc' = [tpc EXCEPT ![t] = "store"]
    /\ UNCHANGED <<throttleVars, t_wake, t_calls, t_sleep, pipelineVars>>

\* request_timestamps = <the list built>
RaceStore(t) ==
    /\ tpc[t] = "store"
    /\ request_timestamps' = t_filtered[t]
    /\ tpc' = [tpc EXCEPT ![t] = "check"]
    /\ UNCHANGED <<now, granted, slack, last_sleep, t_current, t_filtered, t_wake, t_calls,
                   t_sleep, pipelineVars>>

\* if len(request_timestamps) >= ...: time.sleep(sleep_time); else the jitter sleep
RaceCheck(t) ==
    /\ tpc[t] = "check"
    /\ IF Saturated(request_timestamps)
       THEN /\ t_wake' = [t_wake EXCEPT
                   ![t] = now + SleepTime(request_timestamps, t_current[t])]
            /\ t_sleep' = [t_sleep EXCEPT
                   ![t] = SleepTime(request_timestamps, t_current[t])]
            /\ tpc' = [tpc EXCEPT ![t] = "sleep"]
       ELSE /\ \E jitter \in JitterLo..JitterHi :
                   t_wake' = [t_wake EXCEPT ![t] = now + jitter]
            /\ t_sleep' = [t_sleep EXCEPT ![t] = 0]
            /\ tpc' = [tpc EXCEPT ![t] = "jitter"]
    /\ UNCHANGED <<throttleVars, t_current, t_filtered, t_calls, pipelineVars>>

\* time.sleep(sleep_time) returns; jitter = random.uniform(0.1, 0.5); time.sleep(jitter)
RaceWake(t) ==
    /\ tpc[t] = "sleep"
    /\ now >= t_wake[t]
    /\ \E jitter \in JitterLo..JitterHi :
           t_wake' = [t_wake EXCEPT ![t] = now + jitter]
    /\ tpc' = [tpc EXCEPT ![t] = "jitter"]
    /\ UNCHANGED <<throttleVars, t_current, t_filtered, t_calls, t_sleep, pipelineVars>>

\* request_timestamps.append(time.time())
RaceAppend(t) ==
    /\ tpc[t] = "jitter"
    /\ now >= t_wake[t]
    /\ request_timestamps' = Append(request_timestamps, now)
    /\ granted' = Append(InWindow(granted, now), now)
    /\ tpc' = [tpc EXCEPT ![t] = "idle"]
    /\ UNCHANGED <<now, slack, last_sleep, t_current, t_filtered, t_wake, t_calls,
                   t_sleep, pipelineVars>>

\* a tick passes: no thread is at a statement, some thread sleeps and none is due
RaceTick ==
    /\ \A t \in Threads : tpc[t] \in {"idle", "sleep", "jitter"}
    /\ \E t \in Threads : tpc[t] \in {"sleep", "jitter"}
    /\ \A t \in Threads : tpc[t] \in {"sleep", "jitter"} => t_wake[t] > now
    /\ now' = now + 1
    /\ UNCHANGED <<request_timestamps, granted, slack, last_sleep, raceVars, pipelineVars>>

RaceNext ==
    \/ \E t \in Threads : RaceCall(t)
    \/ \E t \in Threads : RaceEvict(t)
    \/ \E t \in Threads : RaceStore(t)
    \/ \E t \in Threads : RaceCheck(t)
    \/ \E t \in Threads : RaceWake(t)
    \/ \E t \in Threads : RaceAppend(t)
    \/ RaceTick

SpecRace == RaceInit /\ [][RaceNext]_vars

\* no grant still inside the window is missing from the shared list
NoTimestampLost == InWindow(request_timestamps, now) = InWindow(granted, now)

\* C2 as claimed: the evict / check / record sequence of each call is atomic
\* with respect to the other threads: no granted timestamp is lost from the
\* shared window, and no two threads are granted on the same last free slot
\* (the window never holds more than the limit).
C2_ThrottleAtomic ==
    /\ NoTimestampLost
    /\ Len(granted) <= MAX_REQUESTS_PER_SECOND * REQUEST_WINDOW

\* the second half of C2 alone: two threads granted on the last free slot
C2_LastSlotGrantedOnce == Len(granted) <= MAX_REQUESTS_PER_SECOND * REQUEST_WINDOW

(***************************************************************************)
(* One run of main(): the tickers are fetched, the threads of the pool     *)
(* enhance the stocks, the result is loaded.  A thread's action runs from  *)
(* the return of one blocking call (a request, a sleep, the limiter) to    *)
(* the next one.  Here a call of throttle_requests() is one step.          *)
(***************************************************************************)
Init ==
    /\ now = 0
    /\ request_timestamps = <<>>
    /\ granted = <<>>
    /\ slack = 0
    /\ last_sleep = 0
    /\ RaceIdle
    /\ MainAtStart
    /\ WorkersIdle
    /\ store = <<>>
    /\ sec_data \in Feeds
    /\ max_enhance \in EnhanceCaps
    /\ LoadOff
    /\ RunOff
    /\ UnitOff

\* what the steps of main() and of the pool's threads leave alone
pipelineOthers == <<slack, last_sleep, raceVars, loadVars, runVars, unitVars>>

\* the stock a thread works on
StockOf(t) == stocks_to_enhance[w_task[t]]

\* the thread's locals after its call of enhance_stock_with_submission_data ended
Release(t) ==
    /\ w_pc' = [w_pc EXCEPT ![t] = "idle"]
    /\ w_task' = [w_task EXCEPT ![t] = 0]
    /\ w_sub' = [w_sub EXCEPT ![t] = EmptyDict]
    /\ w_ret' = [w_ret EXCEPT ![t] = Returned(None)]
    /\ w_log' = [w_log EXCEPT ![t] = <<>>]

\* lines 301-312, the tickers fetched: basic_stocks = fetch_sec_tickers()
MainFetchTickers ==
    /\ m_pc = "fetch_tickers"
    /\ LET stocks == from_sec_json(sec_data)
       IN  /\ basic_stocks' = stocks
           /\ stocks_to_enhance' = Capped(stocks, max_enhance)
           /\ m_pc' = IF stocks = <<>> THEN "done" ELSE "enhance"
    /\ UNCHANGED <<throttleVars, pipelineOthers, sourceVars, queue, futures, collected,
                   enhanced_stocks, workerVars, historyVars, store>>

\* a plausible slip: the except clause of fetch_sec_tickers hands back an
\* empty list and main() goes on to the enhancement
MainFetchTickersFailsUnnoticed ==
    /\ m_pc = "fetch_tickers"
    /\ m_pc' = "enhance"
    /\ UNCHANGED <<throttleVars, pipelineOthers, sourceVars, basic_stocks, stocks_to_enhance,
                   queue, futures, collected, enhanced_stocks, workerVars, historyVars, store>>

\* lines 82-84 and 321-322: the request for the tickers fails; fetch_sec_tickers
\* re-raises and main() logs the error and ends
MainFetchTickersFails ==
    /\ m_pc = "fetch_tickers"
    /\ m_pc' = "failed"
    /\ UNCHANGED <<throttleVars, pipelineOthers, sourceVars, basic_stocks, stocks_to_enhance,
                   queue, futures, collected, enhanced_stocks, workerVars, historyVars, store>>

\* lines 232-242: every stock is submitted to the executor
MainSubmit ==
    /\ m_pc = "enhance"
    /\ queue' = [i \in 1..Len(stocks_to_enhance) |-> i]
    /\ futures' = [i \in 1..Len(stocks_to_enhance) |-> None]
    /\ task_sub' = [i \in 1..Len(stocks_to_enhance) |-> None]
    /\ m_pc' = "collect"
    /\ UNCHANGED <<throttleVars, pipelineOthers, sourceVars, basic_stocks, stocks_to_enhance,
                   collected, enhanced_stocks, workerVars, unthrottled, logged, store>>

\* a plausible slip: a stock is started as soon as it is submitted, whether
\* or not the thread has finished the one before
WorkerTakeAtOnce(t) ==
    /\ queue # <<>>
    /\ w_task' = [w_task EXCEPT ![t] = Head(queue)]
    /\ queue' = Tail(queue)
    /\ w_pc' = [w_pc EXCEPT ![t] = "submission_request"]
    /\ UNCHANGED <<throttleVars, pipelineOthers, sourceVars, m_pc, basic_stocks,
                   stocks_to_enhance, futures, collected, enhanced_stocks, w_sub, w_ret, w_log,
                   w_throttled, historyVars, store>>

\* an idle thread of the pool takes the next stock of the queue
WorkerTake(t) ==
    /\ w_pc[t] = "idle"
    /\ queue # <<>>
    /\ w_task' = [w_task EXCEPT ![t] = Head(queue)]
    /\ queue' = Tail(queue)
    /\ w_pc' = [w_pc EXCEPT ![t] = "submission_request"]
    /\ UNCHANGED <<throttleVars, pipelineOthers, sourceVars, m_pc, basic_stocks,
                   stocks_to_enhance, futures, collected, enhanced_stocks, w_sub, w_ret, w_log,
                   w_throttled, historyVars, store>>

\* a request goes out: it is noted with whether the thread called
\* throttle_requests() since its last request
Send(t, endpoint, attempt) ==
    /\ unthrottled' = IF w_throttled[t] THEN unthrottled
                       ELSE unthrottled \cup {[endpoint |-> endpoint, attempt |-> attempt]}
    /\ w_throttled' = [w_throttled EXCEPT ![t] = FALSE]

\* the thread calls throttle_requests(), which returns
Throttle(t) ==
    /\ LET r == throttle_requests(request_timestamps, now, JitterLo)
       IN  /\ request_timestamps' = r.timestamps
           /\ now' = r.returns
           /\ granted' = Append(InWindow(granted, r.returns), r.returns)
    /\ w_throttled' = [w_throttled EXCEPT ![t] = TRUE]
    /\ w_log' = [w_log EXCEPT ![t] = Append(@, Event("throttle", ""))]

\* fetch_sec_submission_data, lines 88-99 with the except clauses: the first request
SubmissionRequest(t) ==
    /\ w_pc[t] = "submission_request"
    /\ \E reply \in SubmissionReplies(StockOf(t).cik) :
        /\ w_log' = [w_log EXCEPT ![t] = <<Event("request", reply.kind)>>]
        /\ IF submission_first(reply).kind = "retry"
           THEN /\ w_pc' = [w_pc EXCEPT ![t] = "submission_backoff"]
                /\ UNCHANGED w_ret
           ELSE /\ w_pc' = [w_pc EXCEPT ![t] = "submission_returned"]
                /\ w_ret' = [w_ret EXCEPT ![t] = submission_first(reply)]
    /\ Send(t, "submissions", 1)
    /\ UNCHANGED <<throttleVars, pipelineOthers, sourceVars, mainVars, w_task, w_sub,
                   task_sub, logged, store>>

\* a plausible slip: after the back-off the whole request is made again, as
\* long as the answer is 429
SubmissionBackoffAgain(t) ==
    /\ w_pc[t] = "submission_backoff"
    /\ w_log' = [w_log EXCEPT ![t] = Append(@, Event("backoff", ""))]
    /\ w_pc' = [w_pc EXCEPT ![t] = "submission_request"]
    /\ UNCHANGED <<throttleVars, pipelineOthers, sourceVars, mainVars, w_task, w_sub, w_ret,
                   w_throttled, historyVars, store>>

\* line 104: time.sleep(random.uniform(5, 10)) ends
SubmissionBackoff(t) ==
    /\ w_pc[t] = "submission_backoff"
    /\ w_log' = [w_log EXCEPT ![t] = Append(@, Event("backoff", ""))]
    /\ w_pc' = [w_pc EXCEPT ![t] = "submission_throttle"]
    /\ UNCHANGED <<throttleVars, pipelineOthers, sourceVars, mainVars, w_task, w_sub, w_ret,
                   w_throttled, historyVars, store>>

\* line 108: throttle_requests()
SubmissionThrottle(t) ==
    /\ w_pc[t] = "submission_throttle"
    /\ Throttle(t)
    /\ w_pc' = [w_pc EXCEPT ![t] = "submission_retry"]
    /\ UNCHANGED <<pipelineOthers, sourceVars, mainVars, w_task, w_sub, w_ret,
                   historyVars, store>>

\* lines 109-114: the second request
SubmissionRetry(t) ==
    /\ w_pc[t] = "submission_retry"
    /\ \E reply \in SubmissionReplies(StockOf(t).cik) :
        /\ w_log' = [w_log EXCEPT ![t] = Append(@, Event("request", reply.kind))]
        /\ w_ret' = [w_ret EXCEPT ![t] = submission_retry(reply)]
    /\ w_pc' = [w_pc EXCEPT ![t] = "submission_returned"]
    /\ Send(t, "submissions", 2)
    /\ UNCHANGED <<throttleVars, pipelineOthers, sourceVars, mainVars, w_task, w_sub,
                   task_sub, logged, store>>

\* lines 206-210: fetch_sec_submission_data has returned
SubmissionReturned(t) ==
    /\ w_pc[t] = "submission_returned"
    /\ task_sub' = [task_sub EXCEPT ![w_task[t]] = Some(w_ret[t])]
    /\ LET first == after_submission(StockOf(t), w_ret[t])
       IN  IF first.kind = "go on"
           THEN /\ w_sub' = [w_sub EXCEPT ![t] = w_ret[t].value[1]]
                /\ w_pc' = [w_pc EXCEPT ![t] = "facts_throttle"]
                /\ w_log' = [w_log EXCEPT ![t] = <<>>]
                /\ UNCHANGED <<futures, w_task, w_ret>>
           ELSE /\ futures' = [futures EXCEPT ![w_task[t]] = Some(first)]
                /\ Release(t)
    /\ UNCHANGED <<throttleVars, pipelineOthers, sourceVars, m_pc, basic_stocks,
                   stocks_to_enhance, queue, collected, enhanced_stocks, w_throttled, unthrottled,
                   logged, store>>

\* line 136: throttle_requests()
FactsThrottle(t) ==
    /\ w_pc[t] = "facts_throttle"
    /\ Throttle(t)
    /\ w_pc' = [w_pc EXCEPT ![t] = "facts_request"]
    /\ UNCHANGED <<pipelineOthers, sourceVars, mainVars, w_task, w_sub, w_ret,
                   historyVars, store>>

\* fetch_sec_company_facts, lines 137-174 with the except clauses: the first request
FactsRequest(t) ==
    /\ w_pc[t] = "facts_request"
    /\ \E reply \in FactsReplies :
        /\ w_log' = [w_log EXCEPT ![t] = Append(@, Event("request", reply.kind))]
        /\ IF facts_first(reply).kind = "retry"
           THEN /\ w_pc' = [w_pc EXCEPT ![t] = "facts_backoff"]
                /\ UNCHANGED w_ret
           ELSE /\ w_pc' = [w_pc EXCEPT ![t] = "facts_returned"]
                /\ w_ret' = [w_ret EXCEPT ![t] = facts_first(reply)]
    /\ Send(t, "companyfacts", 1)
    /\ UNCHANGED <<throttleVars, pipelineOthers, sourceVars, mainVars, w_task, w_sub,
                   task_sub, logged, store>>

\* line 179: time.sleep(random.uniform(5, 10)) ends
FactsBackoff(t) ==
    /\ w_pc[t] = "facts_backoff"
    /\ w_log' = [w_log EXCEPT ![t] = Append(@, Event("backoff", ""))]
    /\ w_pc' = [w_pc EXCEPT ![t] = "facts_rethrottle"]
    /\ UNCHANGED <<throttleVars, pipelineOthers, sourceVars, mainVars, w_task, w_sub, w_ret,
                   w_throttled, historyVars, store>>

\* line 182: throttle_requests()
FactsRethrottle(t) ==
    /\ w_pc[t] = "facts_rethrottle"
    /\ Throttle(t)
    /\ w_pc' = [w_pc EXCEPT ![t] = "facts_retry"]
    /\ UNCHANGED <<pipelineOthers, sourceVars, mainVars, w_task, w_sub, w_ret,
                   historyVars, store>>

\* lines 183-194: the second request
FactsRetry(t) ==
    /\ w_pc[t] = "facts_retry"
    /\ \E reply \in FactsReplies :
        /\ w_log' = [w_log EXCEPT ![t] = Append(@, Event("request", reply.kind))]
        /\ w_ret' = [w_ret EXCEPT ![t] = facts_retry(reply)]
    /\ w_pc' = [w_pc EXCEPT ![t] = "facts_returned"]
    /\ Send(t, "companyfacts", 2)
    /\ UNCHANGED <<throttleVars, pipelineOthers, sourceVars, mainVars, w_task, w_sub,
                   task_sub, logged, store>>

\* lines 213-228: fetch_sec_company_facts has returned; the call ends
FactsReturned(t) ==
    /\ w_pc[t] = "facts_returned"
    /\ futures' = [futures EXCEPT
           ![w_task[t]] = Some(after_facts(StockOf(t), w_sub[t], w_ret[t]))]
    /\ Release(t)
    /\ UNCHANGED <<throttleVars, pipelineOthers, sourceVars, m_pc, basic_stocks,
                   stocks_to_enhance, queue, collected, enhanced_stocks, w_throttled, unthrottled,
                   task_sub, logged, store>>

\* lines 245-255: as_completed yields a finished future; its result is
\* appended, or its exception logged
MainCollect ==
    /\ m_pc = "collect"
    /\ \E i \in DOMAIN futures \ collected :
        /\ futures[i] # None
        /\ collected' = collected \cup {i}
        /\ enhanced_stocks' =
               IF futures[i][1].kind = "return"
               THEN Append(enhanced_stocks, futures[i][1].value)
               ELSE enhanced_stocks
    /\ UNCHANGED <<throttleVars, pipelineOthers, sourceVars, m_pc, basic_stocks,
                   stocks_to_enhance, queue, futures, workerVars, historyVars, store>>

\* a plausible slip: enhance_stocks_parallel returns without waiting for
\* the futures still pending
MainEnhancedEarly ==
    /\ m_pc = "collect"
    /\ m_pc' = "load"
    /\ UNCHANGED <<throttleVars, pipelineOthers, sourceVars, basic_stocks, stocks_to_enhance,
                   queue, futures, collected, enhanced_stocks, workerVars, historyVars, store>>

\* line 257: every future was yielded and the pool is shut down
MainEnhanced ==
    /\ m_pc = "collect"
    /\ collected = DOMAIN futures
    /\ m_pc' = "load"
    /\ UNCHANGED <<throttleVars, pipelineOthers, sourceVars, basic_stocks, stocks_to_enhance,
                   queue, futures, collected, enhanced_stocks, workerVars, historyVars, store>>

\* line 318: load_to_supabase(enhanced_stocks), with the upserts that raise
MainLoad ==
    /\ m_pc = "load"
    /\ \E failed_batches \in SUBSET (1..BatchCount(Len(enhanced_stocks))),
          failed_records \in SUBSET (1..Len(enhanced_stocks)) :
        /\ store' = load_to_supabase(store, enhanced_stocks, failed_batches, failed_records)
        /\ logged' = failed_logged(enhanced_stocks, failed_batches, failed_records)
    /\ m_pc' = "done"
    /\ UNCHANGED <<throttleVars, pipelineOthers, sourceVars, basic_stocks, stocks_to_enhance,
                   queue, futures, collected, enhanced_stocks, workerVars, unthrottled,
                   task_sub>>

Next ==
    \/ MainFetchTickers
    \/ MainFetchTickersFails
    \/ MainSubmit
    \/ \E t \in Threads : WorkerTake(t)
    \/ \E t \in Threads : SubmissionRequest(t)
    \/ \E t \in Threads : SubmissionBackoff(t)
    \/ \E t \in Threads : SubmissionThrottle(t)
    \/ \E t \in Threads : SubmissionRetry(t)
    \/ \E t \in Threads : SubmissionReturned(t)
    \/ \E t \in Threads : FactsThrottle(t)
    \/ \E t \in Threads : FactsRequest(t)
    \/ \E t \in Threads : FactsBackoff(t)
    \/ \E t \in Threads : FactsRethrottle(t)
    \/ \E t \in Threads : FactsRetry(t)
    \/ \E t \in Threads : FactsReturned(t)
    \/ MainCollect
    \/ MainEnhanced
    \/ MainLoad

Spec == Init /\ [][Next]_vars

\* the requests among the events of a fetch call
RequestsIn(log) == SelectSeq(log, LAMBDA e : e.what = "request")

\* the threads inside fetch_sec_submission_data, or just back from it
InSubmissionFetch(t) ==
    w_pc[t] \in {"submission_backoff", "submission_throttle", "submission_retry",
                 "submission_returned"}

\* C3 as claimed: every request to a rate-limited endpoint (submissions and
\* company facts, first attempt and retry alike) is preceded by a
\* throttle_requests() call of its own, made by the same thread after its
\* previous request.
C3_EveryRequestThrottled == unthrottled = {}

\* C4: in fetch_sec_submission_data at most two requests are ever sent; a
\* first reply other than 429 ends the call after one request; after a 429
\* the call backs off, calls throttle_requests() and sends exactly one more
\* request; and when that retry fails, for whatever reason, the call returns
\* None and raises nothing.
C4_RetryOnceOn429 ==
    \A t \in Threads :
        /\ InSubmissionFetch(t) => Len(RequestsIn(w_log[t])) \in 1..2
        /\ w_pc[t] = "submission_returned" =>
            LET log == w_log[t]
            IN  IF log[1].reply = "429"
                THEN /\ Len(log) = 4
                     /\ <<log[1].what, log[2].what, log[3].what, log[4].what>>
                            = <<"request", "backoff", "throttle", "request">>
                     /\ log[4].reply # "ok" => w_ret[t] = Returned(None)
                     /\ w_ret[t].kind = "return"
                ELSE log = <<Event("request", log[1].reply)>>

\* C4 witness: a submission fetch got 429, retried and the retry failed too
C4_Witness ==
    \E t \in Threads :
        /\ w_pc[t] = "submission_returned"
        /\ Len(w_log[t]) = 4
        /\ w_log[t][1].reply = "429"
        /\ w_log[t][4].reply = "429"
        /\ w_ret[t] = Returned(None)

\* the reply of the last request of the fetch call the thread is back from
LastReply(t) == w_log[t][Len(w_log[t])].reply

\* C5: whatever the first attempt and the retry end in (success, 429, another
\* HTTP status, a transport error, malformed JSON), fetch_sec_submission_data
\* and fetch_sec_company_facts return to the caller, no exception escapes
\* them, and when the last request failed the value returned is the no-data
\* value (None, and the tuple of three None).
C5_FetchNeverFatal ==
    \A t \in Threads :
        /\ w_pc[t] = "submission_returned" =>
            /\ w_ret[t].kind = "return"
            /\ LastReply(t) # "ok" => w_ret[t].value = None
        /\ w_pc[t] = "facts_returned" =>
            /\ w_ret[t].kind = "return"
            /\ LastReply(t) # "ok" => w_ret[t].value = NullTriple

\* C5 witness: both fetches have been seen to fail on a retry that was
\* malformed JSON, and on a first attempt that was a transport error
C5_Witness ==
    /\ \E t \in Threads :
        /\ w_pc[t] = "facts_returned"
        /\ Len(RequestsIn(w_log[t])) = 2
        /\ LastReply(t) = "bad_json"
        /\ w_ret[t] = Returned(NullTriple)
    /\ \E t \in Threads :
        /\ w_pc[t] = "submission_returned"
        /\ w_log[t] = <<Event("request", "transport_error")>>
        /\ w_ret[t] = Returned(None)

\* the records of the list with this cik and symbol
Having(stocks, cik, symbol) ==
    {k \in 1..Len(stocks) : stocks[k].cik = cik /\ stocks[k].symbol = symbol}

\* enhance_stocks_parallel has returned
Enhanced == m_pc \in {"load", "done"} /\ basic_stocks # <<>>

\* C6: enhance_stocks_parallel returns exactly one record per input entity,
\* whatever failed on the way: as many records as stocks given, and for each
\* stock given as many records with its cik and symbol as the input had
\* (none dropped, none added); no future ends in an exception.
C6_NoEntityLost ==
    /\ \A i \in DOMAIN futures : futures[i] # None => futures[i][1].kind = "return"
    /\ Enhanced =>
        /\ Len(enhanced_stocks) = Len(stocks_to_enhance)
        /\ \A i \in 1..Len(stocks_to_enhance) :
            LET s == stocks_to_enhance[i]
            IN  Cardinality(Having(enhanced_stocks, s.cik, s.symbol))
                    = Cardinality(Having(stocks_to_enhance, s.cik, s.symbol))

\* the submission fetch of stock i returned None
DetailFailed(i) == task_sub[i] = Some(Returned(None))

\* the submission fetch of stock i returned the company's well-formed object
DetailFetched(i) ==
    task_sub[i] = Some(Returned(Some(SubmissionJson(stocks_to_enhance[i].cik))))

\* C6 witness: three stocks were given; for one the submission fetch failed,
\* for another the facts fetch came back without a tuple, and one was
\* enhanced; three records came back.
C6_Witness ==
    /\ Enhanced
    /\ Len(enhanced_stocks) = 3
    /\ \E i \in DOMAIN futures : DetailFailed(i)
    /\ \E i \in DOMAIN futures :
        DetailFetched(i) /\ futures[i][1].value = stocks_to_enhance[i]
    /\ \E i \in DOMAIN futures : futures[i][1].value.entity_type # None

\* C7 as claimed: when the detail fetch fails for exactly one entity of the
\* list (and succeeds with the company's data for every other), the output
\* record of that entity is its input and the output record of every other
\* entity is its enriched version, carrying the fields of its own
\* submission data.
C7_FailureIsolated ==
    (/\ Enhanced
     /\ Cardinality({i \in DOMAIN futures : DetailFailed(i)}) = 1
     /\ \A i \in DOMAIN futures : DetailFailed(i) \/ DetailFetched(i))
    => \A i \in DOMAIN futures :
        /\ futures[i][1].kind = "return"
        /\ IF DetailFailed(i)
           THEN futures[i][1].value = stocks_to_enhance[i]
           ELSE futures[i][1].value.entity_type
                    = Some(SubmissionJson(stocks_to_enhance[i].cik).entityType)

(***************************************************************************)
(* load_to_supabase upsert by upsert.  A step runs from one call of        *)
(* upsert(...).execute() to the next; an upsert that raises writes         *)
(* nothing.  The call is made MaxRuns times with the same list, as when    *)
(* main() is run again.                                                    *)
(***************************************************************************)
\* a plausible slip: the except clause of the inner loop re-raises
record_except_reraise == "raise"

\* lines 290-292: the record's failure is logged and the loop goes on
record_except == "skip"

\* lines 282-287: the batch's failure is logged and its records are taken one by one
batch_except == "one_by_one"

\* the Stock enhanced with the company's submission data
EnhancedStock(stock) == update_from_submission(stock, SubmissionJson(stock.cik))

\* the Stocks a list given to load_to_supabase is made of: those of the
\* catalogue, as they were or enhanced
StockPool ==
    LET basic == from_sec_json(SubSeq(Catalogue, 1, Min(MaxCompanies, Len(Catalogue))))
    IN  {basic[k] : k \in DOMAIN basic} \cup {EnhancedStock(basic[k]) : k \in DOMAIN basic}

\* the lists enhance_stocks_parallel can hand over: at most one record per
\* symbol, in any order
LoadLists ==
    UNION {{l \in [1..n -> StockPool] :
               \A a, b \in 1..n : a # b => l[a].symbol # l[b].symbol} :
           n \in 0..Min(MaxCompanies, Len(Catalogue))}

\* one past the last position of the batch that starts at offset i
BatchEnd(i) == Min(i + batch_size, Len(l_records))

\* the batch (counted from 1) the record at position k belongs to
BatchOf(k) == ((k - 1) \div batch_size) + 1

LoadInit ==
    /\ now = 0
    /\ request_timestamps = <<>>
    /\ granted = <<>>
    /\ slack = 0
    /\ last_sleep = 0
    /\ RaceIdle
    /\ MainOff
    /\ RunOff
    /\ UnitOff
    /\ store = <<>>
    /\ l_pc = "start"
    /\ l_stocks \in LoadLists
    /\ l_records = <<>>
    /\ l_i = 0
    /\ l_k = 0
    /\ l_run = 1
    /\ l_store0 = <<>>
    /\ l_tried = <<>>
    /\ l_bulk_failed = {}
    /\ l_rec_ok = {}
    /\ loaded = <<>>
    /\ l_attempted = <<>>

\* what the steps of load_to_supabase leave alone
loadOthers == <<throttleVars, raceVars, sourceVars, mainVars, workerVars, historyVars, runVars,
                unitVars>>

\* lines 262-274: the records are built
LoadStart ==
    /\ l_pc = "start"
    /\ l_records' = Records(l_stocks)
    /\ l_i' = 0
    /\ l_k' = 0
    /\ l_store0' = store
    /\ l_tried' = [k \in 1..Len(l_stocks) |-> 0]
    /\ l_bulk_failed' = {}
    /\ l_rec_ok' = {}
    /\ l_pc' = "batch"
    /\ l_attempted' = <<>>
    /\ UNCHANGED <<loadOthers, store, l_stocks, l_run, loaded>>

\* lines 276-281: the next batch is upserted in one call
LoadBatch ==
    /\ l_pc = "batch"
    /\ l_i < Len(l_records)
    /\ LET batch == Slice(l_records, l_i, batch_size)
       IN  /\ store' = upsert_batch(store, batch)
           /\ loaded' = loaded \o batch
           /\ l_attempted' = Append(l_attempted, batch)
    /\ l_i' = l_i + batch_size
    /\ UNCHANGED <<loadOthers, l_pc, l_stocks, l_records, l_k, l_run, l_store0, l_tried,
                   l_bulk_failed, l_rec_ok>>

\* lines 281-287: the upsert of the batch raises
LoadBatchFails ==
    /\ l_pc = "batch"
    /\ l_i < Len(l_records)
    /\ l_bulk_failed' = l_bulk_failed \cup {(l_i \div batch_size) + 1}
    /\ IF batch_except = "one_by_one"
       THEN /\ l_pc' = "record"
            /\ l_k' = l_i + 1
       ELSE /\ l_pc' = "raised"
            /\ UNCHANGED l_k
    /\ l_attempted' = Append(l_attempted, Slice(l_records, l_i, batch_size))
    /\ UNCHANGED <<loadOthers, store, l_stocks, l_records, l_i, l_run, l_store0, l_tried,
                   l_rec_ok, loaded>>

\* the inner loop goes to its next record, or the outer loop to its next batch
NextRecord ==
    IF l_k + 1 <= BatchEnd(l_i)
    THEN /\ l_k' = l_k + 1
         /\ UNCHANGED <<l_pc, l_i>>
    ELSE /\ l_pc' = "batch"
         /\ l_i' = l_i + batch_size
         /\ l_k' = 0

\* lines 287-289: the record is upserted alone
LoadRecord ==
    /\ l_pc = "record"
    /\ store' = upsert_record(store, l_records[l_k])
    /\ loaded' = Append(loaded, l_records[l_k])
    /\ l_tried' = [l_tried EXCEPT ![l_k] = @ + 1]
    /\ l_rec_ok' = l_rec_ok \cup {l_k}
    /\ NextRecord
    /\ UNCHANGED <<loadOthers, l_stocks, l_records, l_run, l_store0, l_bulk_failed,
                   l_attempted>>

\* lines 289-292: the upsert of the record raises
LoadRecordFails ==
    /\ l_pc = "record"
    /\ l_tried' = [l_tried EXCEPT ![l_k] = @ + 1]
    /\ IF record_except = "skip"
       THEN NextRecord
       ELSE /\ l_pc' = "raised"
            /\ UNCHANGED <<l_i, l_k>>
    /\ UNCHANGED <<loadOthers, store, l_stocks, l_records, l_run, l_store0, l_bulk_failed,
                   l_rec_ok, loaded, l_attempted>>

\* line 294: the loop over the batches is over and the function returns
LoadEnd ==
    /\ l_pc = "batch"
    /\ l_i >= Len(l_records)
    /\ l_pc' = "done"
    /\ UNCHANGED <<loadOthers, store, l_stocks, l_records, l_i, l_k, l_run, l_store0,
                   l_tried, l_bulk_failed, l_rec_ok, loaded, l_attempted>>

\* the same list is loaded once more
LoadAgain ==
    /\ l_pc = "done"
    /\ l_run < MaxRuns
    /\ l_run' = l_run + 1
    /\ l_pc' = "start"
    /\ UNCHANGED <<loadOthers, store, l_stocks, l_records, l_i, l_k, l_store0, l_tried,
                   l_bulk_failed, l_rec_ok, loaded, l_attempted>>

LoadNext ==
    \/ LoadStart
    \/ LoadBatch
    \/ LoadBatchFails
    \/ LoadRecord
    \/ LoadRecordFails
    \/ LoadEnd
    \/ LoadAgain

SpecLoad == LoadInit /\ [][LoadNext]_vars

\* the rows of a table as a set, and those with one key
Rows(rows) == {rows[j] : j \in DOMAIN rows}
RowsWith(rows, cik) == {rows[j] : j \in RowsOf(rows, cik)}

\* the record at position k was written in this call: by the upsert of its
\* batch, or by its own upsert after the batch's failed
Succeeded(k) == BatchOf(k) \notin l_bulk_failed \/ k \in l_rec_ok

\* the positions of the records with this key that were written in this call
Written(cik) == {k \in DOMAIN l_records : l_records[k].cik = cik /\ Succeeded(k)}

\* the largest member of a non-empty set of numbers
Largest(S) == CHOOSE m \in S : \A n \in S : n <= m

\* the keys in sight: of the records, of the table, of the table as it was
KeysInSight ==
    {l_records[k].cik : k \in DOMAIN l_records}
        \cup {store[j].cik : j \in DOMAIN store}
        \cup {l_store0[j].cik : j \in DOMAIN l_store0}

\* the steps of load_to_supabase, run on a table, give what the function
\* taken as a whole gives with the same upserts failing
LoadStepsAgree ==
    l_pc = "done" =>
        store = load_to_supabase(l_store0, l_stocks, l_bulk_failed,
                                 DOMAIN l_records \ {k \in DOMAIN l_records : Succeeded(k)})

\* C8: load_to_supabase never ends in an exception of an upsert; no record
\* is upserted alone more than once; when the call has returned, every
\* record of a batch whose upsert failed was upserted alone exactly once
\* and no record of another batch was (a failing record stops neither its
\* batch nor the batches after it); and the table holds, for every key, the
\* last record with that key whose batch or own upsert succeeded, or what
\* it held before the call when there is none.
C8_BatchFallback ==
    /\ l_pc # "raised"
    /\ \A k \in DOMAIN l_tried : l_tried[k] <= 1
    /\ l_pc = "done" =>
        /\ \A k \in DOMAIN l_records :
            l_tried[k] = IF BatchOf(k) \in l_bulk_failed THEN 1 ELSE 0
        /\ \A cik \in KeysInSight :
            RowsWith(store, cik) =
                IF Written(cik) = {} THEN RowsWith(l_store0, cik)
                ELSE {l_records[Largest(Written(cik))]}

\* C8 witness: of three records in two batches the upsert of the first
\* batch failed; taken alone the first record failed and the second was
\* written; the second batch was written too, and the call returned.
C8_Witness ==
    /\ l_pc = "done"
    /\ l_run = 1
    /\ Len(l_records) = 3
    /\ l_bulk_failed = {1}
    /\ l_tried = <<1, 1, 0>>
    /\ l_rec_ok = {2}
    /\ Rows(store) = {l_records[2], l_records[3]}
    /\ Cardinality(Rows(store)) = 2

\* the keys loaded so far, and the last record loaded with a key
LoadedKeys == {loaded[k].cik : k \in DOMAIN loaded}
LastLoaded(cik) == loaded[Largest({k \in DOMAIN loaded : loaded[k].cik = cik})]

\* C9: after every upsert the table holds exactly one row for each key
\* loaded so far, that row is the last record loaded with the key, and the
\* table has no more rows than keys were loaded, however often and in how
\* many runs a record is loaded.
C9_UpsertIdempotent ==
    /\ \A cik \in LoadedKeys :
        /\ Cardinality(RowsOf(store, cik)) = 1
        /\ RowsWith(store, cik) = {LastLoaded(cik)}
    /\ Len(store) <= Cardinality(LoadedKeys)

\* C9 witness: in the second run, a key has been loaded three times or
\* more, with records that differ, next to another key
C9_Witness ==
    /\ l_pc = "done"
    /\ l_run = 2
    /\ Cardinality(LoadedKeys) = 2
    /\ Len(store) = 2
    /\ \E cik \in LoadedKeys :
        LET ks == {k \in DOMAIN loaded : loaded[k].cik = cik}
        IN  /\ Cardinality(ks) >= 3
            /\ \E a, b \in ks : loaded[a] # loaded[b]

(***************************************************************************)
(* main() run MaxRuns times on the same source data.  The source data are  *)
(* company_tickers.json and, for every stock, what the SEC's replies to    *)
(* its requests make of its enhancement (r_outcome): both are the same in  *)
(* every run.  A call of enhance_stock_with_submission_data is one step    *)
(* here; the futures are still collected in the order they complete.       *)
(***************************************************************************)
\* for every stock of the list one of the results its enhancement can give
OutcomesFor(stocks) ==
    LET results == [i \in DOMAIN stocks |-> EnhanceOutcomes(stocks[i])]
    IN  {f \in [DOMAIN stocks -> UNION {results[i] : i \in DOMAIN stocks}] :
            \A i \in DOMAIN stocks : f[i] \in results[i]}

RunInit ==
    /\ now = 0
    /\ request_timestamps = <<>>
    /\ granted = <<>>
    /\ slack = 0
    /\ last_sleep = 0
    /\ RaceIdle
    /\ MainAtStart
    /\ WorkersIdle
    /\ LoadOff
    /\ UnitOff
    /\ store = <<>>
    /\ sec_data \in Feeds
    /\ max_enhance \in EnhanceCaps
    /\ r_run = 1
    /\ r_prev = <<>>
    /\ r_outcome \in OutcomesFor(Capped(from_sec_json(sec_data), max_enhance))
    /\ r_failed = FALSE

\* lines 232-242 and every call of enhance_stock_with_submission_data: the
\* stocks are submitted and each future gets the result of its call
RunEnhance ==
    /\ m_pc = "enhance"
    /\ futures' = [i \in 1..Len(stocks_to_enhance) |-> Some(r_outcome[i])]
    /\ m_pc' = "collect"
    /\ UNCHANGED <<throttleVars, pipelineOthers, sourceVars, basic_stocks, stocks_to_enhance,
                   queue, collected, enhanced_stocks, workerVars, historyVars, store>>

\* line 318: load_to_supabase(enhanced_stocks), with the upserts that raise
RunLoad ==
    /\ m_pc = "load"
    /\ \E failed_batches \in SUBSET (1..BatchCount(Len(enhanced_stocks))),
          failed_records \in SUBSET (1..Len(enhanced_stocks)) :
        /\ store' = load_to_supabase(store, enhanced_stocks, failed_batches, failed_records)
        /\ r_failed' = (r_failed \/ failed_batches # {})
        /\ logged' = logged \cup failed_logged(enhanced_stocks, failed_batches, failed_records)
    /\ m_pc' = "done"
    /\ UNCHANGED <<throttleVars, slack, last_sleep, raceVars, loadVars, unitVars, sourceVars,
                   basic_stocks, stocks_to_enhance, queue, futures, collected,
                   enhanced_stocks, workerVars, unthrottled, task_sub, r_run, r_prev,
                   r_outcome>>

\* lines 324-325: the script is started again after a run that ended
RunAgain ==
    /\ m_pc = "done"
    /\ r_run < MaxRuns
    /\ r_run' = r_run + 1
    /\ r_prev' = store
    /\ m_pc' = "fetch_tickers"
    /\ basic_stocks' = <<>>
    /\ stocks_to_enhance' = <<>>
    /\ futures' = <<>>
    /\ collected' = {}
    /\ enhanced_stocks' = <<>>
    /\ UNCHANGED <<throttleVars, slack, last_sleep, raceVars, loadVars, unitVars, sourceVars, queue,
                   workerVars, historyVars, store, r_outcome, r_failed>>

RunNext ==
    \/ MainFetchTickers
    \/ MainFetchTickersFails
    \/ RunEnhance
    \/ MainCollect
    \/ MainEnhanced
    \/ RunLoad
    \/ RunAgain

SpecRun == RunInit /\ [][RunNext]_vars

\* C10 as claimed: a second run of the pipeline on unchanged source data
\* (the same company_tickers.json, the same replies for every stock, no
\* upsert failing in either run) leaves the table with the content it had
\* after the first run.
C10_RerunIsNoOp ==
    (m_pc = "done" /\ r_run >= 2 /\ ~r_failed) => Rows(store) = Rows(r_prev)

\* two stocks of the list share their key
SharedKey ==
    \E a, b \in DOMAIN stocks_to_enhance :
        a # b /\ stocks_to_enhance[a].cik = stocks_to_enhance[b].cik

\* what does hold: a re-run changes nothing when no two stocks share a key
RerunIsNoOpOnDistinctKeys ==
    (m_pc = "done" /\ r_run >= 2 /\ ~r_failed /\ ~SharedKey) => Rows(store) = Rows(r_prev)

(***************************************************************************)
(* One run of main() on a company_tickers.json whose entries may lack a    *)
(* field, hold an empty one, or carry an id of eleven digits.  A call of   *)
(* enhance_stock_with_submission_data is one step, as above.               *)
(***************************************************************************)
\* the dict without one of its keys
Without(d, key) == [k \in DOMAIN d \ {key} |-> d[k]]

\* the entries the file is made of
RawEntries ==
    LET apple == Company(320193, "AAPL", "Apple Inc.")
    IN  { apple,
          Company(1652044, "GOOGL", "Alphabet Inc."),
          Without(apple, "cik_str"),
          Without(apple, "ticker"),
          [apple EXCEPT !.ticker = ""],
          Without(apple, "title"),
          [apple EXCEPT !.title = ""],
          [cik_str |-> Number(1, 234567890), ticker |-> "TEN", title |-> "Ten Digits Corp."],
          [cik_str |-> Number(12, 345678901), ticker |-> "WIDE", title |-> "Eleven Digits Corp."] }

\* the files the run may be given
RawFeeds == UNION {[1..n -> RawEntries] : n \in 0..MaxEntries}

IngestInit ==
    /\ now = 0
    /\ request_timestamps = <<>>
    /\ granted = <<>>
    /\ slack = 0
    /\ last_sleep = 0
    /\ RaceIdle
    /\ MainAtStart
    /\ WorkersIdle
    /\ LoadOff
    /\ UnitOff
    /\ store = <<>>
    /\ sec_data \in RawFeeds
    /\ max_enhance \in EnhanceCaps
    /\ r_run = 1
    /\ r_prev = <<>>
    /\ r_outcome \in OutcomesFor(Capped(from_sec_json(sec_data), max_enhance))
    /\ r_failed = FALSE

IngestNext ==
    \/ MainFetchTickers
    \/ MainFetchTickersFails
    \/ RunEnhance
    \/ MainCollect
    \/ MainEnhanced
    \/ RunLoad

SpecIngest == IngestInit /\ [][IngestNext]_vars

\* fetch_sec_tickers has returned the list of Stocks
Fetched == m_pc \notin {"fetch_tickers", "failed"}

\* the entry has the three required fields, none of them empty
Complete(entry) ==
    /\ {"cik_str", "ticker", "title"} \subseteq DOMAIN entry
    /\ entry.ticker # ""
    /\ entry.title # ""

\* the id fits ten decimal digits, and its ten digits with the leading zeros
Fits(n) == n.hi < 10
PaddedId(n) ==
    [p \in 1..CikLength |-> IF p = 1 THEN n.hi ELSE (n.lo \div 10^(CikLength - p)) % 10]

\* C11 as claimed: from_sec_json emits no record for an entry in which
\* ticker, title or cik_str is missing or empty: there are no more Stocks
\* than complete entries, and every Stock has a non-empty symbol and
\* security_name and the padded id of a complete entry with that ticker
\* and title.
C11_RejectsIncomplete ==
    Fetched =>
        /\ Len(basic_stocks)
               <= Cardinality({j \in DOMAIN sec_data : Complete(sec_data[j])})
        /\ \A k \in DOMAIN basic_stocks :
            /\ basic_stocks[k].symbol # ""
            /\ basic_stocks[k].security_name # ""
            /\ \E j \in DOMAIN sec_data :
                /\ Complete(sec_data[j])
                /\ basic_stocks[k].symbol = sec_data[j].ticker
                /\ basic_stocks[k].security_name = sec_data[j].title
                /\ basic_stocks[k].cik = PaddedId(sec_data[j].cik_str)

\* what does hold: an entry without ticker or title, or with an empty one,
\* gives no record
RejectsWithoutTickerOrTitle ==
    Fetched =>
        /\ Len(basic_stocks)
               <= Cardinality({j \in DOMAIN sec_data :
                                  /\ {"ticker", "title"} \subseteq DOMAIN sec_data[j]
                                  /\ sec_data[j].ticker # ""
                                  /\ sec_data[j].title # ""})
        /\ \A k \in DOMAIN basic_stocks :
            /\ basic_stocks[k].symbol # ""
            /\ basic_stocks[k].security_name # ""

\* the Stocks the run holds: made by from_sec_json, handed back by the
\* enhancement, collected
StocksInRun ==
    {basic_stocks[k] : k \in DOMAIN basic_stocks}
        \cup {futures[i][1].value : i \in {j \in DOMAIN futures : futures[j] # None}}
        \cup {enhanced_stocks[k] : k \in DOMAIN enhanced_stocks}

SharesSeries == {None, Some(<<>>), Some(<<0>>), Some(<<90, 100>>), Some(<<95, 110>>)}

\* the replies to a company-facts request, with every pair of series
AllFactsReplies ==
    {[kind |-> "ok", json |-> FactsJson(TRUE, b, d)] : b \in SharesSeries, d \in SharesSeries}
        \cup FactsReplies

FactsInit ==
    /\ now = 0
    /\ request_timestamps = <<>>
    /\ granted = <<>>
    /\ slack = 0
    /\ last_sleep = 0
    /\ RaceIdle
    /\ MainOff
    /\ store = <<>>
    /\ LoadOff
    /\ RunOff
    /\ u_pc = "off"
    /\ u_stock = <<>>
    /\ u_data = <<>>
    /\ u_ret = <<>>
    /\ NotifierOff
    /\ f_pc = "call"
    /\ f_first \in AllFactsReplies
    /\ f_retry \in AllFactsReplies
    /\ f_ret = <<>>

\* what a call of fetch_sec_company_facts leaves alone
factsOthers == <<throttleVars, raceVars, sourceVars, mainVars, workerVars, historyVars, store,
                 loadVars, runVars, updateVars, notifierVars>>

\* lines 129-174 and 176-179, 195-200: the first request, and what the call
\* returns when it does not retry
FactsCall ==
    /\ f_pc = "call"
    /\ IF facts_first(f_first).kind = "retry"
       THEN /\ f_pc' = "retry"
            /\ UNCHANGED f_ret
       ELSE /\ f_pc' = "returned"
            /\ f_ret' = facts_first(f_first)
    /\ UNCHANGED <<factsOthers, f_first, f_retry>>

\* lines 181-194: the retry
FactsCallRetry ==
    /\ f_pc = "retry"
    /\ f_ret' = facts_retry(f_retry)
    /\ f_pc' = "returned"
    /\ UNCHANGED <<factsOthers, f_first, f_retry>>

FactsNext == FactsCall \/ FactsCallRetry

SpecFacts == FactsInit /\ [][FactsNext]_vars

\* the call has returned a tuple
GaveTuple == f_pc = "returned" /\ f_ret.kind = "return" /\ f_ret.value # None

\* C13: in the tuple fetch_sec_company_facts returns, dilution_percentage is
\* not None exactly when basic_shares and diluted_shares are not None and
\* basic_shares > 0, and then it is (diluted_shares - basic_shares) /
\* basic_shares * 100: 10 for 100 and 110, None for basic_shares = 0.
C13_Dilution ==
    GaveTuple =>
        LET t == f_ret.value
            both == t.basic_shares # None /\ t.diluted_shares # None
        IN  /\ t.dilution_percentage # None <=> (both /\ t.basic_shares[1] > 0)
            /\ t.dilution_percentage # None =>
                LET p == t.dilution_percentage[1]
                    b == t.basic_shares[1]
                    d == t.diluted_shares[1]
                IN  /\ p.den # 0
                    /\ p.num * b = (d - b) * 100 * p.den
                    /\ (b = 100 /\ d = 110) => p.num = 10 * p.den
            /\ (t.basic_shares = Some(0)) => t.dilution_percentage = None

\* C13 witness: the series end in 100 and 110 and the call returned 10 percent
C13_Witness ==
    /\ GaveTuple
    /\ f_first.kind = "ok"
    /\ f_first.json = FactsJson(TRUE, Some(<<90, 100>>), Some(<<95, 110>>))
    /\ f_ret.value.basic_shares = Some(100)
    /\ f_ret.value.diluted_shares = Some(110)
    /\ f_ret.value.dilution_percentage # None
    /\ f_ret.value.dilution_percentage[1].num = 10 * f_ret.value.dilution_percentage[1].den

\* basic_shares = 0 next to a diluted count: no percentage
ZeroBasicSeen ==
    /\ GaveTuple
    /\ f_ret.value.basic_shares = Some(0)
    /\ f_ret.value.diluted_shares = Some(110)
    /\ f_ret.value.dilution_percentage = None

(***************************************************************************)
(* One call of Stock.update_from_submission, for Stocks whose optional     *)
(* fields are set or not and for dicts that hold the keys or not.          *)
(***************************************************************************)
\* the key of submission_data each optional field is read from (lines 127-150)
FieldKey ==
    [entity_type |-> "entityType", basic_shares |-> "basicShares",
     diluted_shares |-> "dilutedShares", dilution_percentage |-> "dilutionPercentage"]

\* Apple's Stock with any of its optional fields already set
UpdateStocks ==
    {[BaseStock(<<0, 0, 0, 0, 3, 2, 0, 1, 9, 3>>, "AAPL", "Apple Inc.")
        EXCEPT !.entity_type = e, !.basic_shares = b, !.diluted_shares = d,
               !.dilution_percentage = p] :
        e \in {None, Some(StrValue(<<1>>))}, b \in {None, Some(50)},
        d \in {None, Some(60)}, p \in {None, Some(DilutionPercentage(50, 60))}}

\* the value a dict of the call holds under a key
UpdateValue ==
    [entityType |-> StrValue(<<2>>), basicShares |-> 100, dilutedShares |-> 110,
     dilutionPercentage |-> DilutionPercentage(100, 110)]

\* the dicts given as submission_data: any of the keys, and one whose
\* entityType Stock does not accept
UpdateDicts ==
    {[k \in keys |-> UpdateValue[k]] : keys \in SUBSET DOMAIN UpdateValue}
        \cup {[entityType |-> IntValue(<<2>>)]}

UpdateInit ==
    /\ now = 0
    /\ request_timestamps = <<>>
    /\ granted = <<>>
    /\ slack = 0
    /\ last_sleep = 0
    /\ RaceIdle
    /\ MainOff
    /\ store = <<>>
    /\ LoadOff
    /\ RunOff
    /\ f_pc = "off"
    /\ f_first = <<>>
    /\ f_retry = <<>>
    /\ f_ret = <<>>
    /\ u_pc = "call"
    /\ u_stock \in UpdateStocks
    /\ u_data \in UpdateDicts
    /\ u_ret = <<>>
    /\ NotifierOff

\* lines 114-155: the call builds a new Stock, or hands back the one it was
\* given; it assigns to no field of stock
UpdateCall ==
    /\ u_pc = "call"
    /\ u_ret' = update_from_submission(u_stock, u_data)
    /\ u_pc' = "returned"
    /\ UNCHANGED <<throttleVars, raceVars, sourceVars, mainVars, workerVars, historyVars,
                   store, loadVars, runVars, factsVars, notifierVars, u_stock, u_data>>

UpdateNext == UpdateCall

SpecUpdate == UpdateInit /\ [][UpdateNext]_vars

\* C14 as claimed: the record update_from_submission returns keeps cik,
\* symbol and security_name of the Stock given, keeps every optional field
\* that was set on it and that the dict does not give anew, and, when it is
\* a new record, carries the fields the dict gives.
C14_OriginalFieldsPreserved ==
    u_pc = "returned" =>
        /\ u_ret.cik = u_stock.cik
        /\ u_ret.symbol = u_stock.symbol
        /\ u_ret.security_name = u_stock.security_name
        /\ \A f \in OptionalFields :
            (u_stock[f] # None /\ FieldKey[f] \notin DOMAIN u_data) => u_ret[f] = u_stock[f]
        /\ u_ret # u_stock =>
            \A f \in OptionalFields :
                FieldKey[f] \in DOMAIN u_data => u_ret[f] = Some(u_data[FieldKey[f]])

\* what does hold: cik, symbol and security_name are kept, and a new record
\* carries for every optional field what the dict holds, None when the
\* dict has no such key
CoreFieldsPreserved ==
    u_pc = "returned" =>
        /\ u_ret.cik = u_stock.cik
        /\ u_ret.symbol = u_stock.symbol
        /\ u_ret.security_name = u_stock.security_name
        /\ (u_ret # u_stock \/ DOMAIN u_data = DOMAIN UpdateValue) =>
            \A f \in OptionalFields : u_ret[f] = Get(u_data, FieldKey[f])

(***************************************************************************)
(* Claims about main() and the pool, on the specification Spec.            *)
(***************************************************************************)
\* nothing of the enhancement or of the load has happened
NothingDone ==
    /\ basic_stocks = <<>>
    /\ stocks_to_enhance = <<>>
    /\ queue = <<>>
    /\ futures = <<>>
    /\ enhanced_stocks = <<>>
    /\ \A t \in Threads : w_pc[t] = "idle" /\ w_log[t] = <<>>
    /\ unthrottled = {}
    /\ granted = <<>>
    /\ store = <<>>

\* C15: when the request for the tickers fails, main() ends there: nothing
\* was submitted, no request for a stock was sent, no throttle_requests()
\* call was made, nothing was upserted, and no step follows; and main()
\* leaves the fetch only by that failure or with the list from_sec_json
\* makes of the file, going on to the enhancement only when it is not empty.
C15_SourceUnreachableIsFatal ==
    /\ [](m_pc = "failed" => NothingDone)
    /\ [][m_pc # "failed"]_vars
    /\ [][m_pc = "fetch_tickers" =>
            \/ m_pc' = "failed"
            \/ /\ basic_stocks' = from_sec_json(sec_data)
               /\ m_pc' = "enhance" => basic_stocks' # <<>>]_vars

\* C15 witness: the file holds three companies, the request for it failed
\* and the run is over with an empty table
C15_Witness ==
    /\ m_pc = "failed"
    /\ Len(sec_data) = 3
    /\ NothingDone

\* the table holds the record of this Stock
Persisted(stock) ==
    \E j \in DOMAIN store : store[j].cik = stock.cik /\ store[j].symbol = stock.symbol

\* C16 as claimed: when a run whose ticker fetch succeeded is over, every
\* Stock from_sec_json made is either in the table or named in a log line
\* as not inserted, whatever MAX_STOCKS_TO_ENHANCE is, and none is both.
C16_RecordLifecycle ==
    m_pc = "done" =>
        \A k \in DOMAIN basic_stocks :
            /\ Persisted(basic_stocks[k]) \/ basic_stocks[k].symbol \in logged
            /\ ~(Persisted(basic_stocks[k]) /\ basic_stocks[k].symbol \in logged)

\* what does hold: of the Stocks given to the enhancement, those that share
\* their key with no other are in the table or named in a log line, never both
LifecycleOfEnhancedWithOwnKey ==
    m_pc = "done" =>
        \A k \in DOMAIN stocks_to_enhance :
            (\A j \in DOMAIN stocks_to_enhance :
                j # k => stocks_to_enhance[j].cik # stocks_to_enhance[k].cik)
            => /\ Persisted(stocks_to_enhance[k]) \/ stocks_to_enhance[k].symbol \in logged
               /\ ~(Persisted(stocks_to_enhance[k]) /\ stocks_to_enhance[k].symbol \in logged)

\* the stocks whose enhancement has begun and has not ended
InProgress ==
    {i \in DOMAIN futures : futures[i] = None /\ \A q \in DOMAIN queue : queue[q] # i}

\* C17: at every moment of enhance_stocks_parallel at most max_workers
\* calls of enhance_stock_with_submission_data have begun and not ended,
\* however many stocks were submitted; the others wait in the queue.
C17_BoundedPool ==
    /\ Cardinality(InProgress) <= max_workers
    /\ Cardinality({t \in Threads : w_pc[t] # "idle"}) = Cardinality(InProgress)

\* C17 witness: three stocks were submitted, two are in progress and the
\* third waits
C17_Witness ==
    /\ Len(futures) = 3
    /\ Cardinality(InProgress) = 2
    /\ Len(queue) = 1

(***************************************************************************)
(* The pool under fair scheduling.  The run is followed from a limiter     *)
(* list that is empty, as at the start, or one grant short of the limit,   *)
(* as it is late in a long run, so that a thread sleeps at the rate limit  *)
(* while the last stocks, as many as the pool has threads, are enhanced.   *)
(* Every request is answered, every                                        *)
(* time.sleep ends, and the operating system lets every thread that can    *)
(* take a step take one: weak fairness of the steps of each thread of the  *)
(* pool and of the main thread.                                            *)
(***************************************************************************)
FairInit ==
    /\ request_timestamps \in {<<>>, AlmostFull}
    /\ granted = request_timestamps
    /\ now = Len(request_timestamps)
    /\ slack = 0
    /\ last_sleep = 0
    /\ RaceIdle
    /\ MainAtStart
    /\ WorkersIdle
    /\ store = <<>>
    /\ sec_data = SubSeq(Catalogue, 1, Min(MaxCompanies, Len(Catalogue)))
    /\ max_enhance = Some(max_workers)
    /\ LoadOff
    /\ RunOff
    /\ UnitOff

\* the steps of a thread of the pool
WorkerStep(t) ==
    \/ WorkerTake(t)
    \/ SubmissionRequest(t)
    \/ SubmissionBackoff(t)
    \/ SubmissionThrottle(t)
    \/ SubmissionRetry(t)
    \/ SubmissionReturned(t)
    \/ FactsThrottle(t)
    \/ FactsRequest(t)
    \/ FactsBackoff(t)
    \/ FactsRethrottle(t)
    \/ FactsRetry(t)
    \/ FactsReturned(t)

\* the steps of the main thread inside enhance_stocks_parallel
MainStep == MainSubmit \/ MainCollect \/ MainEnhanced

Fairness ==
    /\ \A t \in Threads : WF_vars(WorkerStep(t))
    /\ WF_vars(MainStep)

SpecFair == FairInit /\ [][Next]_vars /\ Fairness

\* C18: under fair scheduling, whatever the replies (429s with their
\* back-off sleeps included) and whether or not a thread sleeps at the rate
\* limit, once the stocks are submitted every one of them gets its result
\* and enhance_stocks_parallel returns; and a thread that has begun a stock
\* ends it, so that no thread is held for ever by another one's sleep.
C18_Completion ==
    /\ (m_pc = "collect") ~>
           (m_pc = "load" /\ collected = DOMAIN futures
                /\ \A i \in DOMAIN futures : futures[i] # None)
    /\ \A t \in Threads : (w_pc[t] # "idle") ~> (w_pc[t] = "idle")

\* C18 witness: two stocks were submitted and enhance_stocks_parallel has
\* returned; on the way a thread slept at the rate limit (grants have left
\* the window, which the jitters alone do not bring the clock to) and a
\* request was made again after a back-off (the clock, which moves by one
\* jitter for each call of throttle_requests once the window is passed,
\* counts more calls than there are stocks)
C18_Witness ==
    /\ m_pc = "load"
    /\ Len(futures) = max_workers
    /\ collected = DOMAIN futures
    /\ request_timestamps # <<>>
    /\ request_timestamps[1] > AlmostFull[1]
    /\ now > Ticks(REQUEST_WINDOW) + Len(futures) * JitterLo

Full ==
    [i \in 1..(MAX_REQUESTS_PER_SECOND * REQUEST_WINDOW) |-> IF i = 1 THEN 1 ELSE i + 1]

SaturatedInit ==
    /\ request_timestamps = Full
    /\ granted = request_timestamps
    /\ now = Full[Len(Full)]
    /\ slack = 0
    /\ last_sleep = 0
    /\ RaceIdle
    /\ PipelineOff

SpecSaturated == SaturatedInit /\ [][RaceNext]_vars

\* the thread's append: its grant is recorded
GrantRecorded(t) == tpc[t] = "jitter" /\ tpc'[t] = "idle"

\* C20: a call of throttle_requests() that found the window saturated and
\* slept evaluates the window again before it grants: it never records its
\* grant while the window, evaluated at the time of the grant, is still
\* saturated.
C20_RecheckedAfterSleep ==
    [][\A t \in Threads :
          (GrantRecorded(t) /\ t_sleep[t] > 0) =>
              ~Saturated(Evict(request_timestamps, now))]_vars

\* what holds: with one caller at a time the window found after the sleep
\* is never saturated, the oldest grant having left it
NotSaturatedAfterSleepAlone ==
    [][(last_sleep' > 0 /\ request_timestamps' # request_timestamps) =>
          ~Saturated(Evict(request_timestamps, now'))]_vars

\* C21 as claimed: fetch_sec_company_facts returns a 3-tuple on every path:
\* the first attempt answered, with or without GAAP data, a 429 followed by
\* a retry that is answered, with or without 'facts'/'us-gaap', a 429
\* followed by a retry that fails, the other HTTP errors and exceptions.
C21_AlwaysATuple ==
    f_pc = "returned" =>
        /\ f_ret.kind = "return"
        /\ f_ret.value # None
        /\ DOMAIN f_ret.value = DOMAIN NullTriple

\* what holds: a 3-tuple on every path but the retry answered without
\* 'facts'/'us-gaap'
TupleUnlessRetryWithoutGaap ==
    (/\ f_pc = "returned"
     /\ ~(f_first.kind = "429" /\ f_retry.kind = "ok" /\ ~f_retry.json.has_gaap))
    => /\ f_ret.kind = "return"
       /\ f_ret.value # None
       /\ DOMAIN f_ret.value = DOMAIN NullTriple

\* C22 as claimed: whenever the submission fetch of a stock gave the
\* company's data, the record enhance_stock_with_submission_data returns
\* carries the fields of that data, whatever the facts fetch gave.
C22_DetailSurvivesFacts ==
    \A i \in DOMAIN futures :
        (futures[i] # None /\ DetailFetched(i)) =>
            /\ futures[i][1].kind = "return"
            /\ futures[i][1].value.entity_type
                   = Some(SubmissionJson(stocks_to_enhance[i].cik).entityType)

\* what holds: the same when the facts fetch handed back a tuple
DetailSurvivesFactsTuple ==
    [][\A t \in Threads :
          (/\ w_pc[t] = "facts_returned"
           /\ w_pc'[t] = "idle"
           /\ DetailFetched(w_task[t])
           /\ w_ret[t].kind = "return"
           /\ w_ret[t].value # None)
          => /\ futures'[w_task[t]][1].kind = "return"
             /\ futures'[w_task[t]][1].value.entity_type
                    = Some(SubmissionJson(StockOf(t).cik).entityType)]_vars

\* the lists of a list of lists, one after the other
RECURSIVE Flatten(_)
Flatten(lists) == IF lists = <<>> THEN <<>> ELSE Head(lists) \o Flatten(Tail(lists))

\* C23: load_to_supabase splits the n records into ceil(n / batch_size)
\* consecutive batches in input order, each of at most batch_size records
\* and all but the last of exactly batch_size, every record in exactly one
\* batch; every batch is given once as a whole to an upsert, also after the
\* upsert of an earlier batch failed.
C23_BatchPartition ==
    /\ \A b \in DOMAIN l_attempted :
        /\ Len(l_attempted[b]) >= 1
        /\ Len(l_attempted[b]) <= batch_size
        /\ b < Len(l_attempted) => Len(l_attempted[b]) = batch_size
        /\ l_attempted[b] = SubSeq(l_records, (b - 1) * batch_size + 1,
                                   (b - 1) * batch_size + Len(l_attempted[b]))
    /\ l_bulk_failed \subseteq DOMAIN l_attempted
    /\ l_pc = "done" =>
        /\ Flatten(l_attempted) = l_records
        /\ Len(l_attempted) * batch_size >= Len(l_records)
        /\ Len(l_attempted) > 0 => (Len(l_attempted) - 1) * batch_size < Len(l_records)

\* C23 witness: three records went in two batches, the first full and the
\* last with what was left; the upsert of the first failed and the second
\* was attempted all the same
C23_Witness ==
    /\ l_pc = "done"
    /\ Len(l_records) = batch_size + 1
    /\ Len(l_attempted) = 2
    /\ Len(l_attempted[1]) = batch_size
    /\ Len(l_attempted[2]) = 1
    /\ l_bulk_failed = {1}

\* a thread of the pool is inside enhance_stock_with_submission_data
Enriching == \E t \in Threads : w_pc[t] # "idle"

\* no enrichment request was made yet, by any thread
NoRequestYet ==
    /\ ~Enriching
    /\ queue = <<>>
    /\ futures = <<>>
    /\ request_timestamps = <<>>
    /\ unthrottled = {}

\* C24: within a run the fetch of the tickers and their normalization are
\* over before any enrichment request is made, and the first upsert is made
\* only after every enrichment has ended: no upsert while a thread of the
\* pool is still at work or a stock still waits.
C24_StageOrdering ==
    /\ m_pc \in {"fetch_tickers", "failed", "enhance"} => NoRequestYet /\ store = <<>>
    /\ (Enriching \/ queue # <<>>) =>
        /\ m_pc = "collect"
        /\ basic_stocks = from_sec_json(sec_data)
        /\ stocks_to_enhance = Capped(basic_stocks, max_enhance)
        /\ store = <<>>
    /\ (m_pc \in {"load", "done"} \/ store # <<>>) =>
        /\ ~Enriching
        /\ queue = <<>>
        /\ \A i \in DOMAIN futures : futures[i] # None
        /\ collected = DOMAIN futures

\* C24 witness: three stocks were enhanced with requests to the two
\* endpoints, and then written
C24_Witness ==
    /\ m_pc = "done"
    /\ Len(futures) = 3
    /\ request_timestamps # <<>>
    /\ Len(store) >= 2

(***************************************************************************)
(* MCPClient.process_query of urgent_slack_notifier.py: the loop over the  *)
(* model's responses and the tool calls.  A content block is a record of   *)
(* its type, the response it came in and its place there (for a tool_use   *)
(* block the two are its id); a tool_result block carries the id of the    *)
(* tool_use it answers and what the call gave.  A step runs from one       *)
(* messages.create to the next.                                            *)
(***************************************************************************)
\* max_tool_calls = 6
max_tool_calls == 6

Block(type, resp, pos, result) == [type |-> type, resp |-> resp, pos |-> pos, result |-> result]

\* the content of the r-th response of the model, given the types of its blocks
ContentOf(r, shape) == [k \in 1..Len(shape) |-> Block(shape[k], r, k, "")]

\* the contents a response can have: nothing, text alone, a tool call alone
\* or after a text, two tool calls
ResponseShapes ==
    { <<>>, <<"text">>, <<"tool_use">>, <<"text", "tool_use">>, <<"tool_use", "tool_use">> }

\* session.call_tool returns, or raises and the except clause makes the result
ToolResults == {"ok", "error"}

Message(role, content) == [role |-> role, content |-> content]

\* messages = [{"role": "user", "content": query}]
QueryMessage == Message("user", <<Block("query", 0, 0, "")>>)

\* the place of the first tool_use block of the content, 0 when there is none
FirstToolUse(content) ==
    IF \E k \in DOMAIN content : content[k].type = "tool_use"
    THEN CHOOSE k \in DOMAIN content :
             /\ content[k].type = "tool_use"
             /\ \A j \in 1..(k - 1) : content[j].type # "tool_use"
    ELSE 0

\* the blocks the for loop goes through: all of them, or those up to the
\* first tool_use, after which it breaks
Visited(content) ==
    IF FirstToolUse(content) = 0 THEN content ELSE SubSeq(content, 1, FirstToolUse(content))

\* assistant_contents when the for loop ends: the text blocks and the tool_use
AssistantContents(content) ==
    SelectSeq(Visited(content), LAMBDA b : b.type \in {"text", "tool_use"})

\* what the for loop appends to final_text: the texts, and for the tool call
\* format_tool_call_message(tool_call_count, tool_name)
Line(kind, index, block) == [kind |-> kind, index |-> index, resp |-> block.resp, pos |-> block.pos]
TextLines(content, count) ==
    [k \in DOMAIN content |->
        IF content[k].type = "text" THEN Line("text", 0, content[k])
        ELSE Line("call", count, content[k])]

\* add_tool_result_message(messages, tool_id, result.content)
ToolResultMessage(tool_use, result) ==
    Message("user", <<Block("tool_result", tool_use.resp, tool_use.pos, result)>>)

\* the request for a summary appended when the limit was reached
SummaryRequest == Message("user", <<Block("summary_request", 0, 0, "")>>)

\* a plausible slip: the loop goes on while the count is at most the limit
WithinLimitInclusive(count) == count <= max_tool_calls

\* while tool_call_count < max_tool_calls
WithinLimit(count) == count < max_tool_calls

\* if tool_call_count >= max_tool_calls
LimitReached(count) == count >= max_tool_calls

NotifierInit ==
    /\ now = 0
    /\ request_timestamps = <<>>
    /\ granted = <<>>
    /\ slack = 0
    /\ last_sleep = 0
    /\ RaceIdle
    /\ MainOff
    /\ store = <<>>
    /\ LoadOff
    /\ RunOff
    /\ f_pc = "off"
    /\ f_first = <<>>
    /\ f_retry = <<>>
    /\ f_ret = <<>>
    /\ u_pc = "off"
    /\ u_stock = <<>>
    /\ u_data = <<>>
    /\ u_ret = <<>>
    /\ n_pc = "start"
    /\ messages = <<QueryMessage>>
    /\ tool_call_count = 0
    /\ response = <<>>
    /\ final_text = <<>>
    /\ n_received = 0
    /\ n_handled = {}

notifierOthers == <<throttleVars, raceVars, sourceVars, mainVars, workerVars, historyVars, store,
                    loadVars, runVars, factsVars, updateVars>>

\* a response of the model arrives
Receive(shape) ==
    /\ response' = ContentOf(n_received + 1, shape)
    /\ n_received' = n_received + 1

\* lines 192-198: the initial message to the model
NotifierAsk ==
    /\ n_pc = "start"
    /\ \E shape \in ResponseShapes : Receive(shape)
    /\ n_pc' = "loop"
    /\ UNCHANGED <<notifierOthers, messages, tool_call_count, final_text, n_handled>>

\* lines 201-247: an iteration whose response holds a tool_use block: the
\* tool is called, the two messages are appended and the model is asked again
NotifierToolCall ==
    /\ n_pc = "loop"
    /\ WithinLimit(tool_call_count)
    /\ FirstToolUse(response) > 0
    /\ tool_call_count' = tool_call_count + 1
    /\ final_text' = final_text \o TextLines(AssistantContents(response), tool_call_count + 1)
    /\ \E result \in ToolResults :
        messages' = messages \o
            << Message("assistant", AssistantContents(response)),
               ToolResultMessage(response[FirstToolUse(response)], result) >>
    /\ n_handled' = n_handled \cup {n_received}
    /\ \E shape \in ResponseShapes : Receive(shape)
    /\ UNCHANGED <<notifierOthers, n_pc>>

\* lines 201-238: an iteration whose response holds no tool_use block: the
\* assistant message is appended and the loop is left
NotifierAnswer ==
    /\ n_pc = "loop"
    /\ WithinLimit(tool_call_count)
    /\ FirstToolUse(response) = 0
    /\ final_text' = final_text \o TextLines(AssistantContents(response), 0)
    /\ messages' = Append(messages, Message("assistant", AssistantContents(response)))
    /\ n_handled' = n_handled \cup {n_received}
    /\ n_pc' = "after_loop"
    /\ UNCHANGED <<notifierOthers, tool_call_count, response, n_received>>

\* line 201: the condition of the while is false
NotifierLoopEnds ==
    /\ n_pc = "loop"
    /\ ~WithinLimit(tool_call_count)
    /\ n_pc' = "after_loop"
    /\ UNCHANGED <<notifierOthers, messages, tool_call_count, response, final_text,
                   n_received, n_handled>>

\* lines 250-267: the limit was reached: the model is asked for a summary,
\* without tools, and the texts of its answer are kept
NotifierSummary ==
    /\ n_pc = "after_loop"
    /\ LimitReached(tool_call_count)
    /\ messages' = Append(messages, SummaryRequest)
    /\ \E shape \in ResponseShapes :
        /\ Receive(shape)
        /\ final_text' = final_text \o
               TextLines(SelectSeq(ContentOf(n_received + 1, shape),
                                   LAMBDA b : b.type = "text"), 0)
    /\ n_handled' = n_handled \cup {n_received + 1}
    /\ n_pc' = "returned"
    /\ UNCHANGED <<notifierOthers, tool_call_count>>

\* line 269: return "\n".join(final_text)
NotifierReturn ==
    /\ n_pc = "after_loop"
    /\ ~LimitReached(tool_call_count)
    /\ n_pc' = "returned"
    /\ UNCHANGED <<notifierOthers, messages, tool_call_count, response, final_text,
                   n_received, n_handled>>

NotifierNext ==
    \/ NotifierAsk
    \/ NotifierToolCall
    \/ NotifierAnswer
    \/ NotifierLoopEnds
    \/ NotifierSummary
    \/ NotifierReturn

SpecNotifier == NotifierInit /\ [][NotifierNext]_vars

\* the tool calls made: the tool_result messages of the list
ToolResultsIn(msgs) ==
    {j \in DOMAIN msgs : \E k \in DOMAIN msgs[j].content : msgs[j].content[k].type = "tool_result"}

\* the request for a summary was sent
SummaryAsked == \E j \in DOMAIN messages : messages[j] = SummaryRequest

\* C25: whatever the model's responses, process_query makes at most
\* max_tool_calls = 6 tool calls (tool_call_count is the number of calls made
\* and never exceeds 6); it ends: it is never stuck before it returns and
\* it receives at most one response for each tool call, the first one and
\* the summary; and the summary is asked for exactly when the count
\* reached 6.
C25_ToolCallCap ==
    /\ tool_call_count <= max_tool_calls
    /\ tool_call_count = Cardinality(ToolResultsIn(messages))
    /\ n_received <= tool_call_count + 2
    /\ n_pc \notin {"returned", "off"} => ENABLED NotifierNext
    /\ SummaryAsked => n_pc = "returned" /\ tool_call_count = max_tool_calls
    /\ n_pc = "returned" => (SummaryAsked <=> tool_call_count = max_tool_calls)

\* C25 witness: six tool calls were made, the summary was asked for and the
\* call returned
C25_Witness ==
    /\ n_pc = "returned"
    /\ tool_call_count = max_tool_calls
    /\ Cardinality(ToolResultsIn(messages)) = max_tool_calls
    /\ SummaryAsked

\* the tool_use blocks of a message
ToolUsesOf(msg) == {k \in DOMAIN msg.content : msg.content[k].type = "tool_use"}

\* the message holds the result of this tool_use
Answers(msg, tool_use) ==
    /\ msg.role = "user"
    /\ \E k \in DOMAIN msg.content :
        /\ msg.content[k].type = "tool_result"
        /\ msg.content[k].resp = tool_use.resp
        /\ msg.content[k].pos = tool_use.pos

\* every tool_use of the list is followed at once by its result
ToolUseAnswered ==
    \A j \in DOMAIN messages :
        \A k \in ToolUsesOf(messages[j]) :
            /\ messages[j].role = "assistant"
            /\ j < Len(messages)
            /\ Answers(messages[j + 1], messages[j].content[k])

\* user and assistant messages alternate
Alternate == \A j \in 1..(Len(messages) - 1) : messages[j].role # messages[j + 1].role

\* when the call has returned, every response received was gone through
NoResponseDiscarded == n_pc = "returned" => n_handled = 1..n_received

\* C26 as claimed: in the messages list every assistant message with a
\* tool_use block is followed at once by the user message with the
\* tool_result of the same id, no tool_use is left without a result, user and
\* assistant messages alternate, and no response received from the model is
\* discarded, the case where the 6-call limit is reached included.
C26_ToolProtocol ==
    /\ ToolUseAnswered
    /\ Alternate
    /\ NoResponseDiscarded

\* what holds: every tool_use is answered at once; and as long as the limit
\* is not reached the messages alternate and no response is discarded
ToolProtocolBelowLimit ==
    /\ ToolUseAnswered
    /\ tool_call_count < max_tool_calls => Alternate /\ NoResponseDiscarded


=============================================================================
